---------------------------- MODULE Spec2Model ----------------------------
(***************************************************************************)
(* Limitless Canvas MCP server: the tool dispatcher (handleToolCall), the  *)
(* workspace / project / task operations, and the progress synchronizer,   *)
(* over a relational store reached through the Supabase client.            *)
(*                                                                         *)
(* Every operation is an async function.  Each `await` of a store query is *)
(* one atomic step of the model: the step issues the query, the store      *)
(* answers (or fails), and the code up to the next await runs.  Several    *)
(* calls may be in flight at once; the sequential specifications admit a   *)
(* new call only when no other call is in flight.                          *)
(***************************************************************************)
EXTENDS Integers, Sequences, FiniteSets, TLC

(***************************************************************************)
(* Bounds of the model.                                                    *)
(***************************************************************************)
MaxProjects == 2
MaxTasks == 3
MaxClock == 1
MaxBulkTasks == 40

(***************************************************************************)
(* IEEE-754 double arithmetic, as far as                                   *)
(*     Math.round((completedTasks / tasks.length) * 100)                   *)
(* needs it.  The 53-bit significand of a double is kept as four limbs     *)
(* <<m0, m1, m2, m3>> of 11 + 14 + 14 + 14 bits, most significant first    *)
(* (2^10 <= m0 < 2^11); with e the exponent of its leading bit the value   *)
(* is  (m0 * 2^42 + m1 * 2^28 + m2 * 2^14 + m3) * 2^(e - 52).              *)
(***************************************************************************)
LimbBits == 14
TopLimbBits == 11

Pow2(k) == 2 ^ k

Limb == Pow2(LimbBits)

\* How many zero bits the binary expansion of r / n starts with (0 < r < n).
RECURSIVE LeadingZeros(_, _)
LeadingZeros(r, n) == IF 2 * r >= n THEN 0 ELSE 1 + LeadingZeros(2 * r, n)

\* completed / total as a double, for 0 < completed <= total: long division,
\* then rounding to nearest, ties to even, on the 54th bit and the remainder.
DoubleDiv(completed, total) ==
    IF completed = total
    THEN [m |-> <<Pow2(TopLimbBits - 1), 0, 0, 0>>, e |-> 0]
    ELSE LET lz == LeadingZeros(completed, total)
             a0 == completed * Pow2(lz + TopLimbBits)
             m0 == a0 \div total
             a1 == (a0 % total) * Limb
             m1 == a1 \div total
             a2 == (a1 % total) * Limb
             m2 == a2 \div total
             a3 == (a2 % total) * Limb
             m3 == a3 \div total
             a4 == (a3 % total) * 2
             guard  == a4 \div total
             sticky == (a4 % total) # 0
             up == guard = 1 /\ (sticky \/ (m3 % 2) = 1)
             n3 == m3 + (IF up THEN 1 ELSE 0)
             n2 == m2 + (n3 \div Limb)
             n1 == m1 + (n2 \div Limb)
             n0 == m0 + (n1 \div Limb)
         IN  IF n0 = Pow2(TopLimbBits)
             THEN [m |-> <<Pow2(TopLimbBits - 1), 0, 0, 0>>, e |-> -lz]
             ELSE [m |-> <<n0, n1 % Limb, n2 % Limb, n3 % Limb>>, e |-> -(lz + 1)]

\* x * 100 as a double, for a double x in (0, 1]: the exact product has 59 or
\* 60 bits, of which the low 6 or 7 are rounded off (to nearest, ties to
\* even).  Returned as the limbs <<top, k1, k2, k3>> of the rounded product,
\* of value  (top * 2^42 + k1 * 2^28 + k2 * 2^14 + k3) * 2^(x.e - 52).
DoubleTimes100(x) ==
    LET t3  == x.m[4] * 100
        t2  == (x.m[3] * 100) + (t3 \div Limb)
        t1  == (x.m[2] * 100) + (t2 \div Limb)
        top == (x.m[1] * 100) + (t1 \div Limb)
        p3  == t3 % Limb
        d   == IF top >= Pow2(TopLimbBits + 6) THEN 7 ELSE 6
        guard  == (p3 \div Pow2(d - 1)) % 2
        sticky == (p3 % Pow2(d - 1)) # 0
        lsb == (p3 \div Pow2(d)) % 2
        up  == guard = 1 /\ (sticky \/ lsb = 1)
        k3  == p3 - (p3 % Pow2(d)) + (IF up THEN Pow2(d) ELSE 0)
        k2  == (t2 % Limb) + (k3 \div Limb)
        k1  == (t1 % Limb) + (k2 \div Limb)
    IN  [m |-> <<top + (k1 \div Limb), k1 % Limb, k2 % Limb, k3 % Limb>>, e |-> x.e]

\* Math.round(y) = floor(y + 0.5) for a product y of DoubleTimes100: the
\* integer part and the first fraction bit both lie in the top limb.
MathRound(y) ==
    LET unit == Pow2(TopLimbBits - 1 - y.e)
    IN  (y.m[1] \div unit) + ((y.m[1] \div (unit \div 2)) % 2)

\* A calculation that ignores the statuses it read: what SyncWritesWhatItRead
\* rules out.
PercentOfNothing(completed, total) == 0

\* Math.round((completedTasks / tasks.length) * 100)
RoundedPercent(completed, total) ==
    IF completed = 0 THEN 0
    ELSE MathRound(DoubleTimes100(DoubleDiv(completed, total)))

(***************************************************************************)
(* The store and the calls in flight.                                      *)
(***************************************************************************)
VARIABLES
    workspaces,   \* table workspaces:  id -> row
    team_members, \* table team_members: the set of its rows
    projects,     \* table projects:    id -> row
    tasks,        \* table tasks:       id -> row
    nextId,       \* the ids the store hands out next, per table
    clock,        \* the latest value new Date() has returned
    config,       \* currentConfig of the Supabase client module
    supabaseInstance, \* the client of the Supabase client module, or Null
    faulty,       \* whether a store query may fail
    calls,        \* caller -> the tool call it has in flight, or its last one
    phase,        \* the process: starting, serving on stdio or sse, stopping, exited
    fatal,        \* the exception that has escaped at start-up, or Null
    activeTransports, \* sse.ts: requestId -> transport of the connection
    connections   \* client -> its GET /sse connection

store == <<workspaces, team_members, projects, tasks, nextId>>
front == <<phase, fatal, activeTransports, connections>>
vars == <<workspaces, team_members, projects, tasks, nextId, clock, config,
         supabaseInstance, faulty, calls, phase, fatal, activeTransports, connections>>

Callers == {"c1", "c2"}

TaskStatuses == {"backlog", "todo", "in-progress", "review", "done"}
ProjectStatuses == {"active", "completed", "on-hold", "planning"}

Undefined == "undefined"
Null == "null"
Client == "client"

EmptyTable == [i \in {} |-> 0]

\* The clients of the streaming server, and a client that has not connected.
Clients == {"k1", "k2", "k3"}
Unconnected == [state |-> "none", server |-> 0]

\* The process after main() of index.ts has started it: the one client is on
\* stdio, and no streaming connection exists.
ServingOnStdio ==
    /\ phase = "stdio"
    /\ fatal = Null
    /\ activeTransports = EmptyTable
    /\ connections = [k \in Clients |-> Unconnected]
NoFields == [k \in {} |-> 0]

Min(a, b) == IF a < b THEN a ELSE b
Max(a, b) == IF a > b THEN a ELSE b

Has(r, k) == k \in DOMAIN r

\* The fields of an argument bag that a handler forwards: an absent key is
\* `undefined` in the input it builds.
Pick(args, keys) == [k \in (DOMAIN args) \cap keys |-> args[k]]

WithId(table, id) == [id |-> id] @@ table[id]

(***************************************************************************)
(* ToolResult: ToolSuccess | ToolError.                                    *)
(***************************************************************************)
ToolSuccess(data, message) == [success |-> TRUE, data |-> data, message |-> message]
\* An error whose code is none of the server's: what ResultIsEnvelope rules out.
ForeignCode(error, code) == [success |-> FALSE, error |-> error, code |-> "ERROR"]

ToolError(error, code) == [success |-> FALSE, error |-> error, code |-> code]

Pending == [pending |-> TRUE]

\* A rejected promise: the exception it carries, by its message.
Thrown(message) == [thrown |-> message]

(***************************************************************************)
(* The tools/call handler's reply (index.ts): the outcome of               *)
(* handleToolCall as the CallToolResult handed to the transport.           *)
(***************************************************************************)
\* JSON.stringify of an object, as the object a client parses back: a key
\* whose value is undefined is left out.  `optional` names the keys whose
\* value may be undefined.
JSONStringify(object, optional) ==
    [k \in {f \in DOMAIN object : f \in optional => object[f] # Undefined} |-> object[k]]

TextContent(text) == <<[type |-> "text", text |-> text]>>

\* A handler that lets the exception through to the transport: what
\* ExceptionBecomesInternalError rules out.
Rethrow(message) == Thrown(message)

\* The catch block of the handler.
CatchError(message) ==
    [content |-> TextContent(JSONStringify(
                    [success |-> FALSE, error |-> message, code |-> "INTERNAL_ERROR"],
                    {})),
     isError |-> TRUE]

\* A reply that never carries isError: what ErrorIsFlagged rules out.
UnflaggedResult(outcome) ==
    IF Has(outcome, "thrown")
    THEN CatchError(outcome.thrown)
    ELSE [content |-> TextContent(JSONStringify(outcome, {"message", "code"}))]

CallToolResult(outcome) ==
    IF Has(outcome, "thrown")
    THEN CatchError(outcome.thrown)
    ELSE IF outcome.success
    THEN [content |-> TextContent(JSONStringify(
                         [success |-> TRUE, message |-> outcome.message,
                          data |-> outcome.data],
                         {"message"}))]
    ELSE [content |-> TextContent(JSONStringify(
                         [success |-> FALSE, error |-> outcome.error,
                          code |-> outcome.code],
                         {"code"})),
          isError |-> TRUE]

Idle ==
    [pc |-> "idle", name |-> "", args |-> NoFields, input |-> NoFields,
     stack |-> <<>>, pid |-> 0, out |-> Pending, ops |-> <<>>, log |-> <<>>,
     before |-> NoFields, result |-> Pending, response |-> Pending]

InFlight(c) == calls[c].pc \notin {"idle", "done"}
Quiescent == \A c \in Callers : ~InFlight(c)

\* What a query of the store may answer: it succeeds, or (a faulty store) fails.
GatewayOutcomes == IF faulty THEN BOOLEAN ELSE {TRUE}

\* new Date(): time does not run backwards, and is cut off at MaxClock.
Now == {t \in {clock, clock + 1} : t <= MaxClock}

\* The call enters the function `op`.
Invoke(rec, op) == [rec EXCEPT !.ops = Append(@, op)]

Query(rec, verb, table, ok) ==
    [rec EXCEPT !.log = Append(@, [verb |-> verb, table |-> table, ok |-> ok])]

Writes(log) == {i \in 1..Len(log) : log[i].verb \in {"insert", "update", "delete"}}
Failures(log) == {i \in 1..Len(log) : ~log[i].ok}

\* .eq('id', id).single(): exactly one row, or an error.
Single(table, id, ok) ==
    IF ok /\ id \in DOMAIN table
    THEN [error |-> FALSE, data |-> WithId(table, id)]
    ELSE [error |-> TRUE, data |-> NoFields]

(***************************************************************************)
(* Supabase client module: validation helpers.                             *)
(***************************************************************************)
\* A function of the call throws: no function of this program catches, so the
\* exception passes every caller and reaches the handler's catch block, or,
\* in a direct call, the caller of the operation.
Throw(rec, message) ==
    [rec EXCEPT !.pc = "done", !.stack = <<>>, !.result = Thrown(message),
                !.response = IF rec.stack # <<>> /\ rec.stack[Len(rec.stack)] = "CallTool"
                             THEN CallToolResult(Thrown(message))
                             ELSE Pending]

\* getSupabase() as the first statement of an operation: it throws when the
\* client was never initialized, and else the operation goes on with `next`.
getSupabase(rec, next) ==
    IF supabaseInstance = Null
    THEN Throw(rec, "Supabase client not initialized. Call initializeSupabase first.")
    ELSE next

getDefaultWorkspaceId == config.defaultWorkspaceId

\* A check that takes a failed lookup for a row: what MissingRowIsNotFound
\* rules out.
AnyWorkspaceIdIsValid(workspaceId, ok) == TRUE

validateWorkspaceId(workspaceId, ok) ==
    LET r == Single(workspaces, workspaceId, ok) IN ~r.error /\ r.data # NoFields

\* A check that lets every id through: what CheckPrecedesWrite rules out.
AnyProjectIdIsValid(projectId, ok) == TRUE

validateProjectId(projectId, ok) ==
    LET r == Single(projects, projectId, ok) IN ~r.error /\ r.data # NoFields

validateTaskId(taskId, ok) ==
    LET r == Single(tasks, taskId, ok) IN ~r.error /\ r.data # NoFields

(***************************************************************************)
(* Project operations (tools/projects.ts).  An operator named after a      *)
(* function is its entry: the code that runs before its first await,       *)
(* giving the call record at that await.  The actions <function>_<query>   *)
(* are its awaits, each with the code that follows the answer.             *)
(***************************************************************************)

\* The progress as given, out of range or not: what ProgressIsClamped rules out.
Unclamped(progress) == progress

\* A clamp with the lower bound only: what ProgressInRange rules out.
ClampedBelow(progress) == Max(0, progress)

\* projects.ts line 241: Math.min(100, Math.max(0, input.progress))
ClampProgress(progress) == Min(100, Max(0, progress))

updateProject(rec, input) ==
    getSupabase(Invoke(rec, "updateProject"),
        [Invoke(rec, "updateProject")
            EXCEPT !.pc = "updateProject_validate", !.input = input])

updateProjectProgress(rec, projectId, progress) ==
    updateProject(Invoke(rec, "updateProjectProgress"),
                  [project_id |-> projectId, progress |-> ClampProgress(progress)])

\* A function of the call returns `r`: to its caller's continuation, or, with
\* no caller left, to the transport.  syncProjectProgress continues with the
\* write when the calculation succeeded; a task operation drops the
\* synchronizer's result and returns its own.
RECURSIVE Return(_, _)

\* A synchronizer that writes 0 when the calculation failed: what
\* SyncReturnsWhatFailed rules out.
SyncWritesAnyway(caller, r) ==
    updateProjectProgress(caller, caller.pid, IF r.success THEN r.data ELSE 0)

\* syncProjectProgress after its await of calculateProjectProgress.
syncProjectProgress_calculated(caller, r) ==
    IF ~r.success
    THEN Return(caller, r)
    ELSE updateProjectProgress(caller, caller.pid, r.data)

Return(rec, r) ==
    IF rec.stack = <<>>
    THEN [rec EXCEPT !.pc = "done", !.result = r]
    ELSE LET caller == [rec EXCEPT !.stack = Tail(@)]
         IN  IF Head(rec.stack) = "CallTool"
             THEN [caller EXCEPT !.pc = "done", !.result = r,
                                 !.response = CallToolResult(r)]
             ELSE IF Head(rec.stack) = "syncProjectProgress"
             THEN syncProjectProgress_calculated(caller, r)
             ELSE Return(caller, caller.out)

At(c, pc) == calls[c].pc = pc
Becomes(c, rec) == calls' = [calls EXCEPT ![c] = rec]

calculateProjectProgress(rec, projectId) ==
    getSupabase(Invoke(rec, "calculateProjectProgress"),
        [Invoke(rec, "calculateProjectProgress")
            EXCEPT !.pc = "calculateProjectProgress", !.pid = projectId])

syncProjectProgress(rec, projectId) ==
    calculateProjectProgress(
        [Invoke(rec, "syncProjectProgress") EXCEPT !.stack = <<"syncProjectProgress">> \o @],
        projectId)

ProjectTasks(projectId) == {t \in DOMAIN tasks : tasks[t].project_id = projectId}

TaskCounts(ts) ==
    [s \in TaskStatuses |-> Cardinality({t \in ts : tasks[t].status = s})]
        @@ [total |-> Cardinality(ts)]

\* The orders in which the store may return the rows `ids` of `table` under
\* .order(key, {ascending}): rows with equal keys come in any order.
Ordered(table, ids, key, ascending) ==
    {s \in [1..Cardinality(ids) -> ids] :
        /\ \A i, j \in DOMAIN s : i # j => s[i] # s[j]
        /\ \A i, j \in DOMAIN s :
              i < j => IF ascending THEN table[s[i]][key] <= table[s[j]][key]
                                    ELSE table[s[i]][key] >= table[s[j]][key]}

Rows(table, seq) == [i \in DOMAIN seq |-> WithId(table, seq[i])]

\* `if (input.limit) query = query.limit(input.limit)`
Limited(seq, input) ==
    IF Has(input, "limit") /\ input.limit # 0
    THEN SubSeq(seq, 1, Min(Len(seq), input.limit))
    ELSE seq

\* listProjects with the default ahead of the argument: what
\* ExplicitWorkspaceWins rules out.
DefaultWorkspaceFirst(rec0, input) ==
    LET rec == Invoke(rec0, "listProjects")
        workspaceId == IF getDefaultWorkspaceId \notin {Undefined, ""}
                       THEN getDefaultWorkspaceId
                       ELSE IF Has(input, "workspace_id") THEN input.workspace_id
                       ELSE Undefined
    IN  getSupabase(rec,
            IF workspaceId \in {Undefined, ""}
            THEN Return(rec, ToolError("workspace_id is required", "MISSING_WORKSPACE_ID"))
            ELSE [rec EXCEPT !.pc = "listProjects_validate",
                             !.input = [workspace_id |-> workspaceId] @@ input])

listProjects(rec0, input) ==
    LET rec == Invoke(rec0, "listProjects")
        workspaceId == IF Has(input, "workspace_id") /\ input.workspace_id # ""
                       THEN input.workspace_id
                       ELSE getDefaultWorkspaceId
    IN  getSupabase(rec,
            IF workspaceId \in {Undefined, ""}
            THEN Return(rec, ToolError("workspace_id is required", "MISSING_WORKSPACE_ID"))
            ELSE [rec EXCEPT !.pc = "listProjects_validate",
                             !.input = [workspace_id |-> workspaceId] @@ input])

listProjects_validate(c) ==
    /\ At(c, "listProjects_validate")
    /\ \E ok \in GatewayOutcomes :
         LET rec == Query(calls[c], "select", "workspaces", ok)
         IN  IF ~validateWorkspaceId(rec.input.workspace_id, ok)
             THEN Becomes(c, Return(rec, ToolError("Workspace not found", "WORKSPACE_NOT_FOUND")))
             ELSE Becomes(c, [rec EXCEPT !.pc = "listProjects_query"])
    /\ UNCHANGED <<store, clock, config, supabaseInstance, faulty, front>>

listProjects_query(c) ==
    /\ At(c, "listProjects_query")
    /\ \E ok \in GatewayOutcomes :
         LET rec   == Query(calls[c], "select", "projects", ok)
             input == rec.input
             ids   == {p \in DOMAIN projects :
                          /\ projects[p].workspace_id = input.workspace_id
                          /\ (Has(input, "status") /\ input.status # "")
                                => projects[p].status = input.status}
         IN  IF ~ok
             THEN Becomes(c, Return(rec, ToolError("Failed to list projects", "DATABASE_ERROR")))
             ELSE \E seq \in Ordered(projects, ids, "updated_at", FALSE) :
                    Becomes(c, Return(rec,
                        ToolSuccess(Rows(projects, Limited(seq, input)), "Found project(s)")))
    /\ UNCHANGED <<store, clock, config, supabaseInstance, faulty, front>>

getProject(rec, input) ==
    getSupabase(Invoke(rec, "getProject"),
        [Invoke(rec, "getProject")
            EXCEPT !.pc = "getProject_validate", !.input = input])

getProject_validate(c) ==
    /\ At(c, "getProject_validate")
    /\ \E ok \in GatewayOutcomes :
         LET rec == Query(calls[c], "select", "projects", ok)
         IN  IF ~validateProjectId(rec.input.project_id, ok)
             THEN Becomes(c, Return(rec, ToolError("Project not found", "PROJECT_NOT_FOUND")))
             ELSE Becomes(c, [rec EXCEPT !.pc = "getProject_select"])
    /\ UNCHANGED <<store, clock, config, supabaseInstance, faulty, front>>

\* Tasks included only when asked for: what ProjectDetailsAreExact rules out.
IncludesTasksWhenTrue(input) == Has(input, "include_tasks") /\ input.include_tasks

\* `input.include_tasks !== false`
IncludesTasks(input) == ~(Has(input, "include_tasks") /\ input.include_tasks = FALSE)

getProject_select(c) ==
    /\ At(c, "getProject_select")
    /\ \E ok \in GatewayOutcomes :
         LET rec   == Query(calls[c], "select", "projects", ok)
             input == rec.input
             r     == Single(projects, input.project_id, ok)
             ts    == ProjectTasks(input.project_id)
         IN  IF r.error
             THEN Becomes(c, Return(rec, ToolError("Failed to get project", "DATABASE_ERROR")))
             ELSE IF IncludesTasks(input)
             THEN Becomes(c, Return(rec, ToolSuccess(
                      r.data @@ [tasks |-> {WithId(tasks, t) : t \in ts},
                                 task_counts |-> TaskCounts(ts)],
                      "Project with task(s)")))
             ELSE Becomes(c, Return(rec, ToolSuccess(r.data, "Project")))
    /\ UNCHANGED <<store, clock, config, supabaseInstance, faulty, front>>

createProject(rec, input) ==
    getSupabase(Invoke(rec, "createProject"),
        [Invoke(rec, "createProject")
            EXCEPT !.pc = "createProject_validate", !.input = input])

createProject_validate(c) ==
    /\ At(c, "createProject_validate")
    /\ \E ok \in GatewayOutcomes :
         LET rec == Query(calls[c], "select", "workspaces", ok)
         IN  IF ~validateWorkspaceId(rec.input.workspace_id, ok)
             THEN Becomes(c, Return(rec, ToolError("Workspace not found", "WORKSPACE_NOT_FOUND")))
             ELSE Becomes(c, [rec EXCEPT !.pc = "createProject_insert"])
    /\ UNCHANGED <<store, clock, config, supabaseInstance, faulty, front>>

\* The fallback whatever the input holds: what CreatedProjectHasDefaults
\* rules out.
AlwaysFallback(input, field, fallback) == fallback

\* `input.field || fallback`
OrElse(input, field, fallback) ==
    IF Has(input, field) /\ input[field] # "" THEN input[field] ELSE fallback

\* An insert that also stamps the project's workspace: what
\* WorkspacesAreReadOnly rules out.
InsertTouchesWorkspace(id, row) ==
    /\ projects' = (id :> row) @@ projects
    /\ workspaces' = [workspaces EXCEPT ![row.workspace_id].updated_at = row.updated_at]

\* .from('projects').insert(row): one new row in table projects, and no
\* other table written.
InsertProject(id, row) ==
    /\ projects' = (id :> row) @@ projects
    /\ UNCHANGED workspaces

createProject_insert(c) ==
    /\ At(c, "createProject_insert")
    /\ \E ok \in GatewayOutcomes, now \in Now :
         LET rec   == Query(calls[c], "insert", "projects", ok)
             input == rec.input
             id    == nextId.projects
             row   == [workspace_id |-> input.workspace_id,
                       name        |-> input.name,
                       status      |-> OrElse(input, "status", "planning"),
                       priority    |-> OrElse(input, "priority", "medium"),
                       progress    |-> 0,
                       created_at  |-> now,
                       updated_at  |-> now]
         IN  /\ clock' = now
             /\ IF ~ok
                THEN /\ Becomes(c, Return(rec, ToolError("Failed to create project", "DATABASE_ERROR")))
                     /\ UNCHANGED <<workspaces, projects, nextId>>
                ELSE /\ InsertProject(id, row)
                     /\ nextId' = [nextId EXCEPT !.projects = id + 1]
                     /\ Becomes(c, Return(rec, ToolSuccess([id |-> id] @@ row, "Created project")))
    /\ UNCHANGED <<team_members, tasks, config, supabaseInstance, faulty, front>>

updateProject_validate(c) ==
    /\ At(c, "updateProject_validate")
    /\ \E ok \in GatewayOutcomes :
         LET rec == Query(calls[c], "select", "projects", ok)
         IN  IF ~validateProjectId(rec.input.project_id, ok)
             THEN Becomes(c, Return(rec, ToolError("Project not found", "PROJECT_NOT_FOUND")))
             ELSE Becomes(c, [rec EXCEPT !.pc = "updateProject_update"])
    /\ UNCHANGED <<store, clock, config, supabaseInstance, faulty, front>>

ProjectUpdatable ==
    {"name", "description", "status", "priority", "budget", "spent", "due_date"}

\* Updates that put the insert's defaults where the input has no value: what
\* UpdateChangesOnlyGivenFields rules out.
UpdatesWithDefaults(input, now) ==
    [updated_at |-> now, status |-> "planning", priority |-> "medium"]
      @@ [f \in (DOMAIN input) \cap ProjectUpdatable |-> input[f]]

\* `updates`: updated_at, and each field of the input that is not undefined.
ProjectUpdates(input, now) ==
    [updated_at |-> now]
      @@ [f \in (DOMAIN input) \cap ProjectUpdatable |-> input[f]]
      @@ (IF Has(input, "progress")
          THEN [progress |-> ClampProgress(input.progress)]
          ELSE NoFields)

updateProject_update(c) ==
    /\ At(c, "updateProject_update")
    /\ \E ok \in GatewayOutcomes, now \in Now :
         LET rec   == Query(calls[c], "update", "projects", ok)
             input == rec.input
             id    == input.project_id
             updates == ProjectUpdates(input, now)
         IN  /\ clock' = now
             /\ IF ok /\ id \in DOMAIN projects
                THEN /\ projects' = [projects EXCEPT ![id] = updates @@ @]
                     /\ Becomes(c, Return(rec, ToolSuccess([id |-> id] @@ projects'[id], "Updated project")))
                ELSE /\ Becomes(c, Return(rec, ToolError("Failed to update project", "DATABASE_ERROR")))
                     /\ UNCHANGED projects
    /\ UNCHANGED <<workspaces, team_members, tasks, nextId, config, supabaseInstance, faulty, front>>

calculateProjectProgress_select(c) ==
    /\ At(c, "calculateProjectProgress")
    /\ \E ok \in GatewayOutcomes :
         LET rec  == Query(calls[c], "select", "tasks", ok)
             rows == ProjectTasks(rec.pid)
             completedTasks == Cardinality({t \in rows : tasks[t].status = "done"})
         IN  IF ~ok
             THEN Becomes(c, Return(rec, ToolError("Failed to calculate progress", "DATABASE_ERROR")))
             ELSE IF rows = {}
             THEN Becomes(c, Return(rec, ToolSuccess(0, "No tasks in project")))
             ELSE Becomes(c, Return(rec,
                      ToolSuccess(RoundedPercent(completedTasks, Cardinality(rows)),
                                  "tasks completed")))
    /\ UNCHANGED <<store, clock, config, supabaseInstance, faulty, front>>

(***************************************************************************)
(* Task operations (tools/tasks.ts).                                       *)
(***************************************************************************)
ValidTaskStatuses == <<"backlog", "todo", "in-progress", "review", "done">>

\* No check of the status: what InvalidStatusIsRejected rules out.
AnyStatusIsValid(status) == TRUE

IsValidTaskStatus(status) == \E i \in DOMAIN ValidTaskStatuses : ValidTaskStatuses[i] = status

\* The task operation keeps its own result while the synchronizer runs.
ThenSync(rec, frame, result, projectId) ==
    syncProjectProgress([rec EXCEPT !.out = result, !.stack = <<frame>> \o @], projectId)

createTask(rec, input) == [Invoke(rec, "createTask") EXCEPT !.pc = "createTask_validate", !.input = input]

createTask_validate(c) ==
    /\ At(c, "createTask_validate")
    /\ \E ok \in GatewayOutcomes :
         LET rec == Query(calls[c], "select", "projects", ok)
         IN  IF ~validateProjectId(rec.input.project_id, ok)
             THEN Becomes(c, Return(rec, ToolError("Project not found", "PROJECT_NOT_FOUND")))
             ELSE Becomes(c, [rec EXCEPT !.pc = "getNextTaskOrder"])
    /\ UNCHANGED <<store, clock, config, supabaseInstance, faulty, front>>

\* The number of the project's tasks as the next order: what
\* OrderIsMaxPlusOne rules out.
CountOfTasks(projectId, ok) == Cardinality(ProjectTasks(projectId))

\* The order a new task of the project gets: the largest order among the
\* project's tasks plus one, 0 when the query returns no row.
NextTaskOrder(projectId, ok) ==
    LET rows == IF ok THEN ProjectTasks(projectId) ELSE {}
    IN  IF rows = {} THEN 0
        ELSE (CHOOSE m \in {tasks[t].order : t \in rows} :
                 \A t \in rows : tasks[t].order <= m) + 1

getNextTaskOrder(c) ==
    /\ At(c, "getNextTaskOrder")
    /\ \E ok \in GatewayOutcomes :
         LET rec == Query(calls[c], "select", "tasks", ok)
         IN  Becomes(c, [rec EXCEPT !.pc = "createTask_insert",
                                    !.input = [order |-> NextTaskOrder(rec.input.project_id, ok)] @@ @])
    /\ UNCHANGED <<store, clock, config, supabaseInstance, faulty, front>>

createTask_insert(c) ==
    /\ At(c, "createTask_insert")
    /\ \E ok \in GatewayOutcomes, now \in Now :
         LET rec   == Query(calls[c], "insert", "tasks", ok)
             input == rec.input
             id    == nextId.tasks
             row   == [project_id  |-> input.project_id,
                       title       |-> input.title,
                       description |-> OrElse(input, "description", ""),
                       status      |-> OrElse(input, "status", "todo"),
                       priority    |-> OrElse(input, "priority", "medium"),
                       order       |-> input.order,
                       created_at  |-> now,
                       updated_at  |-> now]
         IN  /\ clock' = now
             /\ IF ~ok
                THEN /\ Becomes(c, Return(rec, ToolError("Failed to create task", "DATABASE_ERROR")))
                     /\ UNCHANGED <<tasks, nextId>>
                ELSE /\ tasks' = (id :> row) @@ tasks
                     /\ nextId' = [nextId EXCEPT !.tasks = id + 1]
                     /\ Becomes(c, ThenSync(rec, "createTask",
                                    ToolSuccess([id |-> id] @@ row, "Created task"),
                                    input.project_id))
    /\ UNCHANGED <<workspaces, team_members, projects, config, supabaseInstance, faulty, front>>

ProjectOf(taskRow) ==
    IF taskRow.project_id \in DOMAIN projects
    THEN [id |-> taskRow.project_id,
          name |-> projects[taskRow.project_id].name,
          workspace_id |-> projects[taskRow.project_id].workspace_id]
    ELSE NoFields

getTask(rec, taskId) == [Invoke(rec, "getTask") EXCEPT !.pc = "getTask_select", !.input = [task_id |-> taskId]]

getTask_select(c) ==
    /\ At(c, "getTask_select")
    /\ \E ok \in GatewayOutcomes :
         LET rec == Query(calls[c], "select", "tasks", ok)
             r   == Single(tasks, rec.input.task_id, ok)
         IN  IF r.error
             THEN Becomes(c, Return(rec, ToolError("Task not found", "TASK_NOT_FOUND")))
             ELSE Becomes(c, Return(rec,
                      ToolSuccess(r.data @@ [project |-> ProjectOf(r.data)], "Task")))
    /\ UNCHANGED <<store, clock, config, supabaseInstance, faulty, front>>

\* The first await of updateTask, moveTask and deleteTask: the current task.
FetchTask(c, from, to) ==
    /\ At(c, from)
    /\ \E ok \in GatewayOutcomes :
         LET rec == Query(calls[c], "select", "tasks", ok)
             r   == Single(tasks, rec.input.task_id, ok)
         IN  IF r.error
             THEN Becomes(c, Return(rec, ToolError("Task not found", "TASK_NOT_FOUND")))
             ELSE Becomes(c, [rec EXCEPT !.pc = to,
                                         !.pid = r.data.project_id,
                                         !.input = [previous |-> r.data] @@ @])
    /\ UNCHANGED <<store, clock, config, supabaseInstance, faulty, front>>

TaskUpdatable == {"title", "description", "status", "priority"}

\* .update(updates).eq('id', id).select().single()
UpdateTask(c, at, frame, fields, sync, message) ==
    /\ At(c, at)
    /\ \E ok \in GatewayOutcomes, now \in Now :
         LET rec     == Query(calls[c], "update", "tasks", ok)
             id      == rec.input.task_id
             updates == [updated_at |-> now] @@ fields
         IN  /\ clock' = now
             /\ IF ok /\ id \in DOMAIN tasks
                THEN /\ tasks' = [tasks EXCEPT ![id] = updates @@ @]
                     /\ LET result == ToolSuccess([id |-> id] @@ tasks'[id], message)
                        IN  IF sync
                            THEN Becomes(c, ThenSync(rec, frame, result, rec.pid))
                            ELSE Becomes(c, Return(rec, result))
                ELSE /\ Becomes(c, Return(rec, ToolError("Failed to update task", "DATABASE_ERROR")))
                     /\ UNCHANGED tasks
    /\ UNCHANGED <<workspaces, team_members, projects, nextId, config, supabaseInstance, faulty, front>>

updateTask(rec, input) == [Invoke(rec, "updateTask") EXCEPT !.pc = "updateTask_select", !.input = input]

updateTask_select(c) == FetchTask(c, "updateTask_select", "updateTask_update")

UpdateTaskFields(input) == [f \in (DOMAIN input) \cap TaskUpdatable |-> input[f]]

\* An update that synchronizes whatever it changes: what
\* UpdateTaskSyncsOnStatus rules out.
UpdateTaskAlwaysSyncs(input) == TRUE

UpdateTaskSyncs(input) == Has(input, "status")

updateTask_update(c) ==
    UpdateTask(c, "updateTask_update", "updateTask", UpdateTaskFields(calls[c].input),
               UpdateTaskSyncs(calls[c].input), "Updated task")

moveTask(rec0, input) ==
    LET rec == Invoke(rec0, "moveTask") IN
    IF ~IsValidTaskStatus(input.new_status)
    THEN Return(rec, ToolError("Invalid status. Valid statuses: backlog, todo, in-progress, review, done",
                               "INVALID_STATUS"))
    ELSE [rec EXCEPT !.pc = "moveTask_select", !.input = input]

moveTask_select(c) == FetchTask(c, "moveTask_select", "moveTask_update")

MoveTaskFields(input) == [status |-> input.new_status]

MoveTaskSyncs(input) == TRUE

moveTask_update(c) ==
    UpdateTask(c, "moveTask_update", "moveTask", MoveTaskFields(calls[c].input),
               MoveTaskSyncs(calls[c].input), "Task moved")

startTask(rec, taskId) ==
    moveTask(Invoke(rec, "startTask"), [task_id |-> taskId, new_status |-> "in-progress"])

completeTask(rec, taskId) ==
    moveTask(Invoke(rec, "completeTask"), [task_id |-> taskId, new_status |-> "done"])

reviewTask(rec, taskId) ==
    moveTask(Invoke(rec, "reviewTask"), [task_id |-> taskId, new_status |-> "review"])

deleteTask(rec, taskId) == [Invoke(rec, "deleteTask") EXCEPT !.pc = "deleteTask_select", !.input = [task_id |-> taskId]]

deleteTask_select(c) == FetchTask(c, "deleteTask_select", "deleteTask_delete")

deleteTask_delete(c) ==
    /\ At(c, "deleteTask_delete")
    /\ \E ok \in GatewayOutcomes :
         LET rec == Query(calls[c], "delete", "tasks", ok)
             id  == rec.input.task_id
         IN  IF ~ok
             THEN /\ Becomes(c, Return(rec, ToolError("Failed to delete task", "DATABASE_ERROR")))
                  /\ UNCHANGED tasks
             ELSE /\ tasks' = [t \in (DOMAIN tasks) \ {id} |-> tasks[t]]
                  /\ Becomes(c, ThenSync(rec, "deleteTask",
                        ToolSuccess([deleted |-> TRUE, task_id |-> id,
                                     title |-> rec.input.previous.title], "Deleted task"),
                        rec.pid))
    /\ UNCHANGED <<workspaces, team_members, projects, nextId, clock, config, supabaseInstance, faulty, front>>

listProjectTasks(rec, projectId, status) ==
    [Invoke(rec, "listProjectTasks") EXCEPT !.pc = "listProjectTasks_validate",
                !.input = [project_id |-> projectId, status |-> status]]

listProjectTasks_validate(c) ==
    /\ At(c, "listProjectTasks_validate")
    /\ \E ok \in GatewayOutcomes :
         LET rec == Query(calls[c], "select", "projects", ok)
         IN  IF ~validateProjectId(rec.input.project_id, ok)
             THEN Becomes(c, Return(rec, ToolError("Project not found", "PROJECT_NOT_FOUND")))
             ELSE Becomes(c, [rec EXCEPT !.pc = "listProjectTasks_query"])
    /\ UNCHANGED <<store, clock, config, supabaseInstance, faulty, front>>

listProjectTasks_query(c) ==
    /\ At(c, "listProjectTasks_query")
    /\ \E ok \in GatewayOutcomes :
         LET rec   == Query(calls[c], "select", "tasks", ok)
             input == rec.input
             ids   == {t \in ProjectTasks(input.project_id) :
                          input.status \notin {Undefined, ""} => tasks[t].status = input.status}
         IN  IF ~ok
             THEN Becomes(c, Return(rec, ToolError("Failed to list tasks", "DATABASE_ERROR")))
             ELSE \E seq \in Ordered(tasks, ids, "order", TRUE) :
                    Becomes(c, Return(rec, ToolSuccess(Rows(tasks, seq), "Found task(s)")))
    /\ UNCHANGED <<store, clock, config, supabaseInstance, faulty, front>>

\* Whether `text` contains `query`, case-insensitively (ilike '%query%'), on
\* the texts and queries of the model.
Contains(text, query) ==
    <<text, query>> \in {<<"Implement login", "login">>,
                         <<"Add dashboard", "dashboard">>,
                         <<"Create main dashboard view", "dashboard">>}

DefaultSearchLimit == 20

\* The tasks `seq` joined with their projects.
Joined(seq) ==
    LET rows == Rows(tasks, seq)
    IN  [i \in DOMAIN rows |-> rows[i] @@ [project |-> ProjectOf(rows[i])]]

InWorkspace(hits, input) ==
    IF Has(input, "workspace_id") /\ input.workspace_id # ""
    THEN SelectSeq(hits, LAMBDA h : h.project # NoFields
                           /\ h.project.workspace_id = input.workspace_id)
    ELSE hits

\* The workspace filter ahead of the limit: what SearchLimitsBeforeFilter
\* rules out.
FilteredThenLimited(seq, input, limit) ==
    LET hits == InWorkspace(Joined(seq), input)
    IN  SubSeq(hits, 1, Min(Len(hits), limit))

\* The rows the store returns for the limited query, then the filter by the
\* joined project's workspace.
SearchResults(seq, input, limit) ==
    InWorkspace(Joined(SubSeq(seq, 1, Min(Len(seq), limit))), input)

searchTasks(rec, input) == [Invoke(rec, "searchTasks") EXCEPT !.pc = "searchTasks_query", !.input = input]

searchTasks_query(c) ==
    /\ At(c, "searchTasks_query")
    /\ \E ok \in GatewayOutcomes :
         LET rec   == Query(calls[c], "select", "tasks", ok)
             input == rec.input
             limit == IF Has(input, "limit") /\ input.limit # 0
                      THEN input.limit ELSE DefaultSearchLimit
             ids   == {t \in DOMAIN tasks :
                          /\ \/ Contains(tasks[t].title, input.query)
                             \/ Contains(tasks[t].description, input.query)
                          /\ (Has(input, "project_id") => tasks[t].project_id = input.project_id)
                          /\ (Has(input, "status") /\ input.status # ""
                                => tasks[t].status = input.status)}
         IN  IF ~ok
             THEN Becomes(c, Return(rec, ToolError("Failed to search tasks", "DATABASE_ERROR")))
             ELSE \E seq \in Ordered(tasks, ids, "updated_at", FALSE) :
                    Becomes(c, Return(rec, ToolSuccess(SearchResults(seq, input, limit),
                                                       "Found task(s)")))
    /\ UNCHANGED <<store, clock, config, supabaseInstance, faulty, front>>

(***************************************************************************)
(* Workspace operations (tools/workspaces.ts).                             *)
(***************************************************************************)
RecentProjectsShown == 5

listWorkspaces(rec, input) ==
    getSupabase(Invoke(rec, "listWorkspaces"),
        [Invoke(rec, "listWorkspaces")
            EXCEPT !.pc = "listWorkspaces_query", !.input = input])

listWorkspaces_query(c) ==
    /\ At(c, "listWorkspaces_query")
    /\ \E ok \in GatewayOutcomes :
         LET rec == Query(calls[c], "select", "workspaces", ok)
         IN  IF ~ok
             THEN Becomes(c, Return(rec, ToolError("Failed to list workspaces", "DATABASE_ERROR")))
             ELSE \E seq \in Ordered(workspaces, DOMAIN workspaces, "updated_at", FALSE) :
                    Becomes(c, Return(rec,
                        ToolSuccess(Rows(workspaces, Limited(seq, rec.input)), "Found workspace(s)")))
    /\ UNCHANGED <<store, clock, config, supabaseInstance, faulty, front>>

\* `const isValid = await validateWorkspaceId(id); if (!isValid) return ...`
ValidateWorkspace(c, from, to) ==
    /\ At(c, from)
    /\ \E ok \in GatewayOutcomes :
         LET rec == Query(calls[c], "select", "workspaces", ok)
         IN  IF ~validateWorkspaceId(rec.input.workspace_id, ok)
             THEN Becomes(c, Return(rec, ToolError("Workspace not found", "WORKSPACE_NOT_FOUND")))
             ELSE Becomes(c, [rec EXCEPT !.pc = to])
    /\ UNCHANGED <<store, clock, config, supabaseInstance, faulty, front>>

getWorkspace(rec, input) ==
    getSupabase(Invoke(rec, "getWorkspace"),
        [Invoke(rec, "getWorkspace")
            EXCEPT !.pc = "getWorkspace_validate", !.input = input])

getWorkspace_validate(c) == ValidateWorkspace(c, "getWorkspace_validate", "getWorkspace_select")

getWorkspace_select(c) ==
    /\ At(c, "getWorkspace_select")
    /\ \E ok \in GatewayOutcomes :
         LET rec == Query(calls[c], "select", "workspaces", ok)
             r   == Single(workspaces, rec.input.workspace_id, ok)
         IN  IF r.error
             THEN Becomes(c, Return(rec, ToolError("Failed to get workspace", "DATABASE_ERROR")))
             ELSE Becomes(c, Return(rec, ToolSuccess(r.data, "Workspace")))
    /\ UNCHANGED <<store, clock, config, supabaseInstance, faulty, front>>

getWorkspaceSummary(rec, workspaceId) ==
    getSupabase(Invoke(rec, "getWorkspaceSummary"),
        [Invoke(rec, "getWorkspaceSummary")
            EXCEPT !.pc = "getWorkspaceSummary_validate", !.input = [workspace_id |-> workspaceId]])

getWorkspaceSummary_validate(c) ==
    ValidateWorkspace(c, "getWorkspaceSummary_validate", "getWorkspaceSummary_workspace")

getWorkspaceSummary_workspace(c) ==
    /\ At(c, "getWorkspaceSummary_workspace")
    /\ \E ok \in GatewayOutcomes :
         LET rec == Query(calls[c], "select", "workspaces", ok)
             r   == Single(workspaces, rec.input.workspace_id, ok)
         IN  IF r.error \/ r.data = NoFields
             THEN Becomes(c, Return(rec, ToolError("Failed to get workspace", "DATABASE_ERROR")))
             ELSE Becomes(c, [rec EXCEPT !.pc = "getWorkspaceSummary_projects",
                                         !.input = [workspace |-> r.data] @@ @])
    /\ UNCHANGED <<store, clock, config, supabaseInstance, faulty, front>>

WorkspaceProjects(workspaceId) ==
    {p \in DOMAIN projects : projects[p].workspace_id = workspaceId}

getWorkspaceSummary_projects(c) ==
    /\ At(c, "getWorkspaceSummary_projects")
    /\ \E ok \in GatewayOutcomes :
         LET rec  == Query(calls[c], "select", "projects", ok)
             ids  == WorkspaceProjects(rec.input.workspace_id)
             rec2 == [rec EXCEPT !.input = [projects |-> {WithId(projects, p) : p \in ids},
                                            tasks |-> {}] @@ @]
         IN  IF ~ok
             THEN Becomes(c, Return(rec, ToolError("Failed to get projects", "DATABASE_ERROR")))
             ELSE IF ids # {}
             THEN Becomes(c, [rec2 EXCEPT !.pc = "getWorkspaceSummary_tasks"])
             ELSE Becomes(c, [rec2 EXCEPT !.pc = "getWorkspaceSummary_team"])
    /\ UNCHANGED <<store, clock, config, supabaseInstance, faulty, front>>

getWorkspaceSummary_tasks(c) ==
    /\ At(c, "getWorkspaceSummary_tasks")
    /\ \E ok \in GatewayOutcomes :
         LET rec == Query(calls[c], "select", "tasks", ok)
             projectIds == {p.id : p \in rec.input.projects}
         IN  IF ~ok
             THEN Becomes(c, Return(rec, ToolError("Failed to get tasks", "DATABASE_ERROR")))
             ELSE Becomes(c, [rec EXCEPT
                      !.pc = "getWorkspaceSummary_team",
                      !.input.tasks = {WithId(tasks, t) :
                                         t \in {u \in DOMAIN tasks : tasks[u].project_id \in projectIds}}])
    /\ UNCHANGED <<store, clock, config, supabaseInstance, faulty, front>>

Count(rows, status) == Cardinality({r \in rows : r.status = status})

\* The active projects, latest first, all of them: what SummaryIsExact rules
\* out.
EveryActiveProject(rows) ==
    LET active == {r \in rows : r.status = "active"}
        n      == Cardinality(active)
    IN  {s \in [1..n -> active] :
            /\ \A i, j \in 1..n : i # j => s[i] # s[j]
            /\ \A i, j \in 1..n : i < j => s[i].updated_at >= s[j].updated_at}

\* filter(active).sort(by updated_at, latest first).slice(0, 5)
RecentProjects(rows) ==
    LET active == {r \in rows : r.status = "active"}
        n      == Cardinality(active)
    IN  {SubSeq(s, 1, Min(n, RecentProjectsShown)) :
            s \in {q \in [1..n -> active] :
                     /\ \A i, j \in 1..n : i # j => q[i] # q[j]
                     /\ \A i, j \in 1..n : i < j => q[i].updated_at >= q[j].updated_at}}

getWorkspaceSummary_team(c) ==
    /\ At(c, "getWorkspaceSummary_team")
    /\ \E ok \in GatewayOutcomes :
         LET rec   == Query(calls[c], "select", "team_members", ok)
             input == rec.input
             teamMembers == {m \in team_members : m.workspace_id = input.workspace_id}
         IN  IF ~ok
             THEN Becomes(c, Return(rec, ToolError("Failed to get team members", "DATABASE_ERROR")))
             ELSE \E recent \in RecentProjects(input.projects) :
                    Becomes(c, Return(rec, ToolSuccess(
                      [workspace |-> input.workspace,
                       projects  |-> [total     |-> Cardinality(input.projects),
                                      active    |-> Count(input.projects, "active"),
                                      completed |-> Count(input.projects, "completed"),
                                      planning  |-> Count(input.projects, "planning"),
                                      on_hold   |-> Count(input.projects, "on-hold")],
                       tasks     |-> [total       |-> Cardinality(input.tasks),
                                      backlog     |-> Count(input.tasks, "backlog"),
                                      todo        |-> Count(input.tasks, "todo"),
                                      in_progress |-> Count(input.tasks, "in-progress"),
                                      review      |-> Count(input.tasks, "review"),
                                      done        |-> Count(input.tasks, "done")],
                       team_members    |-> Cardinality(teamMembers),
                       recent_projects |-> recent],
                      "Workspace summary")))
    /\ UNCHANGED <<store, clock, config, supabaseInstance, faulty, front>>

getWorkInProgress(rec, workspaceId) ==
    getSupabase(Invoke(rec, "getWorkInProgress"),
        [Invoke(rec, "getWorkInProgress")
            EXCEPT !.pc = "getWorkInProgress_validate", !.input = [workspace_id |-> workspaceId]])

getWorkInProgress_validate(c) ==
    ValidateWorkspace(c, "getWorkInProgress_validate", "getWorkInProgress_projects")

getWorkInProgress_projects(c) ==
    /\ At(c, "getWorkInProgress_projects")
    /\ \E ok \in GatewayOutcomes :
         LET rec == Query(calls[c], "select", "projects", ok)
             projectIds == WorkspaceProjects(rec.input.workspace_id)
         IN  IF ~ok
             THEN Becomes(c, Return(rec, ToolError("Failed to get projects", "DATABASE_ERROR")))
             ELSE IF projectIds = {}
             THEN Becomes(c, Return(rec, ToolSuccess(<<>>, "No projects in workspace")))
             ELSE Becomes(c, [rec EXCEPT !.pc = "getWorkInProgress_tasks",
                                         !.input = [projectIds |-> projectIds] @@ @])
    /\ UNCHANGED <<store, clock, config, supabaseInstance, faulty, front>>

\* The statuses a task in progress has, review left out: what
\* WorkInProgressIsExact rules out.
InProgressOnly == {"in-progress"}

\* .in('status', ['in-progress', 'review'])
InProgressStatuses == {"in-progress", "review"}

getWorkInProgress_tasks(c) ==
    /\ At(c, "getWorkInProgress_tasks")
    /\ \E ok \in GatewayOutcomes :
         LET rec == Query(calls[c], "select", "tasks", ok)
             ids == {t \in DOMAIN tasks :
                        /\ tasks[t].project_id \in rec.input.projectIds
                        /\ tasks[t].status \in InProgressStatuses}
         IN  IF ~ok
             THEN Becomes(c, Return(rec, ToolError("Failed to get tasks", "DATABASE_ERROR")))
             ELSE \E seq \in Ordered(tasks, ids, "updated_at", FALSE) :
                    Becomes(c, Return(rec, ToolSuccess(Rows(tasks, seq),
                                                       "task(s) in progress or review")))
    /\ UNCHANGED <<store, clock, config, supabaseInstance, faulty, front>>

(***************************************************************************)
(* The tool catalog and the dispatcher (index.ts).                         *)
(***************************************************************************)
\* A catalog that declares no delete_task: what CatalogIsRouted rules out.
ToolsWithoutDeleteTask ==
    <<"list_workspaces", "get_workspace", "get_workspace_summary", "get_work_in_progress",
      "list_projects", "get_project", "create_project", "update_project",
      "update_project_progress",
      "create_task", "get_task", "update_task", "move_task", "start_task",
      "complete_task", "review_task", "search_tasks", "list_project_tasks">>

TOOLS ==
    <<"list_workspaces", "get_workspace", "get_workspace_summary", "get_work_in_progress",
      "list_projects", "get_project", "create_project", "update_project",
      "update_project_progress",
      "create_task", "get_task", "update_task", "move_task", "start_task",
      "complete_task", "review_task", "search_tasks", "list_project_tasks", "delete_task">>

\* args.key: `undefined` when the caller did not send the key.
Arg(args, key) == IF Has(args, key) THEN args[key] ELSE Undefined

\* A switch whose default falls into the first case: what
\* UnknownToolIsRejected rules out.
UnknownToolFallsThrough(rec, name) == listWorkspaces(rec, NoFields)

\* The default case of the switch.
UnknownTool(rec, name) == Return(rec, ToolError("Unknown tool", "UNKNOWN_TOOL"))

\* The case labels of handleToolCall's switch.
SwitchCases ==
    {"list_workspaces", "get_workspace", "get_workspace_summary", "get_work_in_progress",
     "list_projects", "get_project", "create_project", "update_project",
     "update_project_progress", "create_task", "get_task", "update_task", "move_task",
     "start_task", "complete_task", "review_task", "list_project_tasks", "search_tasks",
     "delete_task"}

\* handleToolCall(name, undefined), the request carrying no arguments: every
\* case of the switch reads a property of `args`, the default case reads none.
handleToolCallWithoutArguments(rec, name) ==
    IF name \in SwitchCases
    THEN Throw(rec, "Cannot read properties of undefined")
    ELSE UnknownTool(rec, name)

handleToolCall(rec, name, args) ==
    CASE name = "list_workspaces" -> listWorkspaces(rec, Pick(args, {"limit"}))
      [] name = "get_workspace" -> getWorkspace(rec, [workspace_id |-> Arg(args, "workspace_id")])
      [] name = "get_workspace_summary" -> getWorkspaceSummary(rec, Arg(args, "workspace_id"))
      [] name = "get_work_in_progress" -> getWorkInProgress(rec, Arg(args, "workspace_id"))
      [] name = "list_projects" ->
            listProjects(rec, Pick(args, {"workspace_id", "status", "limit"}))
      [] name = "get_project" -> getProject(rec, Pick(args, {"project_id", "include_tasks"}))
      [] name = "create_project" ->
            createProject(rec, Pick(args, {"workspace_id", "name", "description", "status",
                                           "priority", "budget", "due_date",
                                           "estimated_duration_hours"}))
      [] name = "update_project" ->
            updateProject(rec, Pick(args, {"project_id", "name", "description", "status",
                                           "priority", "progress", "budget", "spent",
                                           "due_date"}))
      [] name = "update_project_progress" ->
            updateProjectProgress(rec, Arg(args, "project_id"), Arg(args, "progress"))
      [] name = "create_task" ->
            createTask(rec, Pick(args, {"project_id", "title", "description", "status",
                                        "priority", "assignee", "due_date", "tags"}))
      [] name = "get_task" -> getTask(rec, Arg(args, "task_id"))
      [] name = "update_task" ->
            updateTask(rec, Pick(args, {"task_id", "title", "description", "status",
                                        "priority", "assignee", "due_date", "tags"}))
      [] name = "move_task" ->
            moveTask(rec, [task_id |-> Arg(args, "task_id"),
                           new_status |-> Arg(args, "new_status")])
      [] name = "start_task" -> startTask(rec, Arg(args, "task_id"))
      [] name = "complete_task" -> completeTask(rec, Arg(args, "task_id"))
      [] name = "review_task" -> reviewTask(rec, Arg(args, "task_id"))
      [] name = "search_tasks" ->
            searchTasks(rec, Pick(args, {"query", "workspace_id", "project_id", "status",
                                         "limit"}))
      [] name = "list_project_tasks" ->
            listProjectTasks(rec, Arg(args, "project_id"), Arg(args, "status"))
      [] name = "delete_task" -> deleteTask(rec, Arg(args, "task_id"))
      [] OTHER -> UnknownTool(rec, name)

\* The requests the model sends: tool name and arguments.
Request(name, args) == [name |-> name, args |-> args]

WorkspaceIdArgs == {"w1", "w0"}
\* Ids the requests name: 0 is no row's id, 1 is the id of the first row.
ProjectIdArgs == {0, 1}
TaskIdArgs == {0, 1}
ProgressArgs == {-10, 50, 150}

WorkspaceRequests ==
    {Request("list_workspaces", a) : a \in {NoFields, [limit |-> 1]}}
    \cup {Request(n, [workspace_id |-> w]) :
            n \in {"get_workspace", "get_workspace_summary", "get_work_in_progress"},
            w \in WorkspaceIdArgs}

ProjectRequests ==
    {Request("list_projects", a) :
        a \in {NoFields} \cup {[workspace_id |-> w] : w \in WorkspaceIdArgs}}
    \cup {Request("get_project", [project_id |-> p] @@ a) :
            p \in ProjectIdArgs, a \in {NoFields, [include_tasks |-> FALSE]}}
    \cup {Request("create_project", [workspace_id |-> w, name |-> "P"]) : w \in WorkspaceIdArgs}
    \cup {Request("update_project", [project_id |-> p] @@ a) :
            p \in ProjectIdArgs,
            a \in {[progress |-> g] : g \in ProgressArgs}}
    \cup {Request("update_project_progress", [project_id |-> p, progress |-> g]) :
            p \in ProjectIdArgs, g \in ProgressArgs}

TaskRequests ==
    {Request("create_task", [project_id |-> p, title |-> "Implement login"] @@ a) :
        p \in ProjectIdArgs, a \in {NoFields, [status |-> "done"]}}
    \cup {Request(n, [task_id |-> t]) :
            n \in {"get_task", "start_task", "complete_task", "review_task", "delete_task"},
            t \in TaskIdArgs}
    \cup {Request("update_task", [task_id |-> t] @@ a) :
            t \in TaskIdArgs, a \in {[status |-> "done"]}}
    \cup {Request("move_task", [task_id |-> t, new_status |-> s]) :
            t \in TaskIdArgs, s \in {"done", "invalid"}}
    \cup {Request("search_tasks", [query |-> "login"] @@ a) :
            a \in {NoFields, [limit |-> 1]}}
    \cup {Request("list_project_tasks", [project_id |-> p] @@ a) :
            p \in ProjectIdArgs, a \in {NoFields, [status |-> "done"]}}

UnknownRequests == {Request("drop_database", NoFields), Request("List_Workspaces", NoFields)}

Requests == WorkspaceRequests \cup ProjectRequests \cup TaskRequests \cup UnknownRequests

\* The store hands out ids without end; the model stops creating rows at
\* MaxProjects projects and MaxTasks tasks.
Creating(name) == Cardinality({c \in Callers : InFlight(c) /\ calls[c].name = name})

Admissible(r) ==
    /\ r.name = "create_project" => nextId.projects + Creating("create_project") <= MaxProjects
    /\ r.name = "create_task" => nextId.tasks + Creating("create_task") <= MaxTasks

\* The rows of the store, remembered in the call record as they were when
\* the call arrived.
Snapshot ==
    [workspaces |-> workspaces, team_members |-> team_members,
     projects |-> projects, tasks |-> tasks]

\* A tools/call request arrives from caller c, and the handler runs up to its
\* first await.
CallTool(c, r) ==
    /\ At(c, "idle")
    /\ Admissible(r)
    /\ LET rec == [Idle EXCEPT !.name = r.name, !.stack = <<"CallTool">>,
                                !.before = Snapshot]
       IN  IF Has(r, "args")
           THEN Becomes(c, handleToolCall([rec EXCEPT !.args = r.args], r.name, r.args))
           ELSE Becomes(c, handleToolCallWithoutArguments(rec, r.name))
    /\ UNCHANGED <<store, clock, config, supabaseInstance, faulty, front>>

\* calculateProjectProgress is exported and called directly (tests, scripts).
CallCalculateProjectProgress(c, projectId) ==
    /\ At(c, "idle")
    /\ Becomes(c, calculateProjectProgress(
                     [Idle EXCEPT !.name = "calculateProjectProgress",
                                  !.args = [project_id |-> projectId],
                                  !.before = Snapshot], projectId))
    /\ UNCHANGED <<store, clock, config, supabaseInstance, faulty, front>>

\* The handler's return value goes out as the response to the request.
Respond(c) ==
    /\ At(c, "done")
    /\ Becomes(c, Idle)
    /\ UNCHANGED <<store, clock, config, supabaseInstance, faulty, front>>

(***************************************************************************)
(* The awaits of each module.                                              *)
(***************************************************************************)
WorkspaceSteps(c) ==
    \/ listWorkspaces_query(c)
    \/ getWorkspace_validate(c)
    \/ getWorkspace_select(c)
    \/ getWorkspaceSummary_validate(c)
    \/ getWorkspaceSummary_workspace(c)
    \/ getWorkspaceSummary_projects(c)
    \/ getWorkspaceSummary_tasks(c)
    \/ getWorkspaceSummary_team(c)
    \/ getWorkInProgress_validate(c)
    \/ getWorkInProgress_projects(c)
    \/ getWorkInProgress_tasks(c)

ProjectSteps(c) ==
    \/ listProjects_validate(c)
    \/ listProjects_query(c)
    \/ getProject_validate(c)
    \/ getProject_select(c)
    \/ createProject_validate(c)
    \/ createProject_insert(c)

UpdateProjectSteps(c) ==
    \/ updateProject_validate(c)
    \/ updateProject_update(c)

SyncSteps(c) ==
    \/ calculateProjectProgress_select(c)
    \/ UpdateProjectSteps(c)

MoveSteps(c) ==
    \/ moveTask_select(c)
    \/ moveTask_update(c)

CreateTaskSteps(c) ==
    \/ createTask_validate(c)
    \/ getNextTaskOrder(c)
    \/ createTask_insert(c)

DeleteTaskSteps(c) ==
    \/ deleteTask_select(c)
    \/ deleteTask_delete(c)

TaskSteps(c) ==
    \/ getTask_select(c)
    \/ updateTask_select(c)
    \/ updateTask_update(c)
    \/ listProjectTasks_validate(c)
    \/ listProjectTasks_query(c)
    \/ searchTasks_query(c)

(***************************************************************************)
(* The server after start-up, serving one call at a time.                  *)
(***************************************************************************)
Workspace(name, at) == [name |-> name, updated_at |-> at]

\* The one member of the studio's team.
TeamMembers == {[id |-> "m1", workspace_id |-> "w1"]}

Project(workspaceId, name, at) ==
    [workspace_id |-> workspaceId, name |-> name, status |-> "planning",
     priority |-> "medium", progress |-> 0, created_at |-> at, updated_at |-> at]

Task(projectId, title, status, order, at) ==
    [project_id |-> projectId, title |-> title, description |-> "", status |-> status,
     priority |-> "medium", order |-> order, created_at |-> at, updated_at |-> at]

Init ==
    /\ workspaces = ("w1" :> Workspace("Studio", 0))
    /\ team_members = TeamMembers
    /\ projects = (1 :> [Project("w1", "Website", 0) EXCEPT !.progress = 50])
    /\ tasks = (1 :> Task(1, "Implement login", "todo", 0, 0))
                 @@ (2 :> Task(1, "Add dashboard", "done", 1, 0))
    /\ nextId = [projects |-> 2, tasks |-> 3]
    /\ clock = 0
    /\ config = [defaultWorkspaceId |-> "w1"]
    /\ supabaseInstance = Client
    /\ faulty \in BOOLEAN
    /\ calls = [c \in Callers |-> Idle]
    /\ ServingOnStdio

Sequential == "c1"

Next ==
    \/ \E r \in Requests : Quiescent /\ CallTool(Sequential, r)
    \/ \E p \in ProjectIdArgs : Quiescent /\ CallCalculateProjectProgress(Sequential, p)
    \/ WorkspaceSteps(Sequential)
    \/ ProjectSteps(Sequential)
    \/ SyncSteps(Sequential)
    \/ MoveSteps(Sequential)
    \/ CreateTaskSteps(Sequential)
    \/ DeleteTaskSteps(Sequential)
    \/ TaskSteps(Sequential)
    \/ Respond(Sequential)

Spec == Init /\ [][Next]_vars

(***************************************************************************)
(* Properties of the dispatcher and of the operations, one call at a time. *)
(***************************************************************************)
Settled(c) == calls[c].pc = "done"

Unchanged(c) == calls[c].before = Snapshot

Code(c) == IF calls[c].result.success THEN "" ELSE calls[c].result.code

CatalogNames ==
    {"list_workspaces", "get_workspace", "get_workspace_summary", "get_work_in_progress",
     "list_projects", "get_project", "create_project", "update_project",
     "update_project_progress", "create_task", "get_task", "update_task", "move_task",
     "start_task", "complete_task", "review_task", "search_tasks", "list_project_tasks",
     "delete_task"}

\* C2: updateProject and updateProjectProgress on an existing project with
\* progress p store min(100, max(0, p)): 0 for p < 0, 100 for p > 100, p
\* otherwise; the two operations store the same value for the same p.
ProgressIsClamped ==
    \A c \in Callers :
        (/\ Settled(c)
         /\ calls[c].name \in {"update_project", "update_project_progress"}
         /\ Has(calls[c].args, "progress")
         /\ calls[c].args.project_id \in DOMAIN calls[c].before.projects
         /\ calls[c].result.success)
        => LET p      == calls[c].args.progress
               stored == projects[calls[c].args.project_id].progress
           IN  /\ p < 0 => stored = 0
               /\ p > 100 => stored = 100
               /\ (p >= 0 /\ p <= 100) => stored = p
               /\ calls[c].result.data.progress = stored

ProgressWasClamped ==
    \E c \in Callers :
        /\ Settled(c)
        /\ calls[c].name = "update_project_progress"
        /\ calls[c].args.progress = 150
        /\ calls[c].result.success
        /\ projects[calls[c].args.project_id].progress = 100

\* C6: a call whose name is not in the catalog returns the error
\* UNKNOWN_TOOL at once, enters no operation, issues no query of the store,
\* and leaves the store as it was.
UnknownToolIsRejected ==
    \A c \in Callers :
        (calls[c].pc # "idle" /\ calls[c].name \notin CatalogNames
                              /\ calls[c].name # "calculateProjectProgress")
        => /\ Settled(c)
           /\ ~calls[c].result.success
           /\ calls[c].result.code = "UNKNOWN_TOOL"
           /\ calls[c].ops = <<>>
           /\ calls[c].log = <<>>
           /\ Unchanged(c)

UnknownToolWasCalled ==
    \E c \in Callers :
        /\ Settled(c)
        /\ calls[c].name = "drop_database"
        /\ Code(c) = "UNKNOWN_TOOL"

\* The operation each catalog name stands for.
Operation ==
    [list_workspaces |-> "listWorkspaces", get_workspace |-> "getWorkspace",
     get_workspace_summary |-> "getWorkspaceSummary",
     get_work_in_progress |-> "getWorkInProgress",
     list_projects |-> "listProjects", get_project |-> "getProject",
     create_project |-> "createProject", update_project |-> "updateProject",
     update_project_progress |-> "updateProjectProgress",
     create_task |-> "createTask", get_task |-> "getTask", update_task |-> "updateTask",
     move_task |-> "moveTask", start_task |-> "startTask",
     complete_task |-> "completeTask", review_task |-> "reviewTask",
     search_tasks |-> "searchTasks", list_project_tasks |-> "listProjectTasks",
     delete_task |-> "deleteTask"]

InvalidStatusIsRejected ==
    \A c \in Callers :
        (/\ calls[c].pc # "idle"
         /\ calls[c].name = "move_task"
         /\ calls[c].args.new_status \notin {"backlog", "todo", "in-progress", "review", "done"})
        => /\ Settled(c)
           /\ Code(c) = "INVALID_STATUS"
           /\ Writes(calls[c].log) = {}
           /\ Unchanged(c)

InvalidStatusWasSent ==
    \E c \in Callers :
        /\ Settled(c)
        /\ calls[c].name = "move_task"
        /\ calls[c].args.new_status = "invalid"
        /\ calls[c].args.task_id \in DOMAIN tasks
        /\ Code(c) = "INVALID_STATUS"

\* The tools that take the id of a row, by the table of the row.
ByProjectId == {"get_project", "update_project"}
ByWorkspaceId ==
    {"get_workspace", "get_workspace_summary", "get_work_in_progress", "list_projects",
     "create_project"}
ByTaskId ==
    {"get_task", "update_task", "move_task", "start_task", "complete_task", "review_task",
     "delete_task"}

\* C9: an operation given the id of a row that does not exist returns the
\* not-found error of the row's kind: PROJECT_NOT_FOUND (getProject,
\* updateProject), WORKSPACE_NOT_FOUND (getWorkspace, getWorkspaceSummary,
\* getWorkInProgress, listProjects, createProject), TASK_NOT_FOUND (the task
\* operations, move_task with a valid status included).
MissingRowIsNotFound ==
    \A c \in Callers :
        Settled(c) =>
            LET name == calls[c].name
                args == calls[c].args
                was  == calls[c].before
            IN  /\ (name \in ByProjectId /\ args.project_id \notin DOMAIN was.projects)
                      => Code(c) = "PROJECT_NOT_FOUND"
                /\ (name \in ByWorkspaceId /\ Has(args, "workspace_id")
                                           /\ args.workspace_id \notin DOMAIN was.workspaces)
                      => Code(c) = "WORKSPACE_NOT_FOUND"
                /\ (name \in ByTaskId /\ args.task_id \notin DOMAIN was.tasks
                                      /\ (name = "move_task" => args.new_status \in TaskStatuses))
                      => Code(c) = "TASK_NOT_FOUND"

MissingRowWasNamed ==
    \E c \in Callers :
        /\ Settled(c)
        /\ calls[c].name = "get_workspace_summary"
        /\ calls[c].args.workspace_id \notin DOMAIN workspaces
        /\ Code(c) = "WORKSPACE_NOT_FOUND"
        /\ Failures(calls[c].log) = {}

\* The table whose row a mutating tool checks before it writes.
CheckedTable ==
    [create_project |-> "workspaces", update_project |-> "projects",
     update_project_progress |-> "projects", create_task |-> "projects",
     update_task |-> "tasks", move_task |-> "tasks", start_task |-> "tasks",
     complete_task |-> "tasks", review_task |-> "tasks", delete_task |-> "tasks"]

CheckedId(name, args) ==
    IF name = "create_project" THEN args.workspace_id
    ELSE IF CheckedTable[name] = "projects" THEN args.project_id
    ELSE args.task_id

\* C10: in a mutating operation the existence check comes before any insert,
\* update or delete: the first query of a call that has written is the
\* successful read of the checked row; and when the row does not exist the
\* call returns an error, has written nothing, and every row is unchanged.
CheckPrecedesWrite ==
    \A c \in Callers :
        calls[c].name \in DOMAIN CheckedTable =>
            LET name == calls[c].name
                log  == calls[c].log
                was  == calls[c].before
            IN  /\ Writes(log) # {}
                      => /\ log[1] = [verb |-> "select", table |-> CheckedTable[name], ok |-> TRUE]
                         /\ CheckedId(name, calls[c].args) \in DOMAIN was[CheckedTable[name]]
                /\ (Settled(c) /\ CheckedId(name, calls[c].args) \notin DOMAIN was[CheckedTable[name]])
                      => /\ ~calls[c].result.success
                         /\ Writes(log) = {}
                         /\ Unchanged(c)

CheckHasFailed ==
    \E c \in Callers :
        /\ Settled(c)
        /\ calls[c].name = "update_project"
        /\ calls[c].args.project_id \notin DOMAIN projects
        /\ ~calls[c].result.success
        /\ Len(calls[c].log) = 1

(***************************************************************************)
(* Tasks created and deleted in a project that starts with none, one call  *)
(* at a time, every query of the store succeeding.                         *)
(***************************************************************************)
InitOrder ==
    /\ workspaces = ("w1" :> Workspace("Studio", 0))
    /\ team_members = TeamMembers
    /\ projects = (1 :> Project("w1", "Website", 0))
    /\ tasks = EmptyTable
    /\ nextId = [projects |-> 2, tasks |-> 1]
    /\ clock = 0
    /\ config = [defaultWorkspaceId |-> "w1"]
    /\ supabaseInstance = Client
    /\ faulty = FALSE
    /\ calls = [c \in Callers |-> Idle]
    /\ ServingOnStdio

OrderRequests == {r \in TaskRequests : r.name \in {"create_task", "delete_task"}}

NextOrder ==
    \/ \E r \in OrderRequests : CallTool(Sequential, r)
    \/ CreateTaskSteps(Sequential)
    \/ DeleteTaskSteps(Sequential)
    \/ SyncSteps(Sequential)
    \/ Respond(Sequential)

SpecOrder == InitOrder /\ [][NextOrder]_vars

\* The largest of a nonempty set of numbers.
Largest(S) == CHOOSE m \in S : \A x \in S : x <= m

\* C4: a task created in a project gets the largest order among the
\* project's tasks plus one, 0 when the project has none; so N tasks created
\* one after another in a project without tasks, nothing deleted in between,
\* get the orders 0, 1, ..., N-1 in the order of their creation.
OrderIsMaxPlusOne ==
    /\ \A c \in Callers :
          (Settled(c) /\ calls[c].name = "create_task" /\ calls[c].result.success)
          => LET created == calls[c].result.data
                 was     == calls[c].before.tasks
                 orders  == {was[t].order : t \in {u \in DOMAIN was :
                                                      was[u].project_id = created.project_id}}
             IN  /\ created.order = IF orders = {} THEN 0 ELSE Largest(orders) + 1
                 /\ tasks[created.id].order = created.order
    /\ Cardinality(DOMAIN tasks) = nextId.tasks - 1
          => \A t \in DOMAIN tasks : tasks[t].order = t - 1

ThirdTaskAfterDeletion ==
    \E c \in Callers :
        /\ Settled(c)
        /\ calls[c].name = "create_task"
        /\ calls[c].result.success
        /\ calls[c].result.data.order = 2
        /\ Cardinality(DOMAIN tasks) = 2

(***************************************************************************)
(* Two callers, each moving one of the two tasks of a project, at the same *)
(* time, every query of the store succeeding.                              *)
(***************************************************************************)
InitConc ==
    /\ workspaces = ("w1" :> Workspace("Studio", 0))
    /\ team_members = TeamMembers
    /\ projects = (1 :> Project("w1", "Website", 0))
    /\ tasks = (1 :> Task(1, "Implement login", "todo", 0, 0))
                 @@ (2 :> Task(1, "Add dashboard", "todo", 1, 0))
    /\ nextId = [projects |-> 2, tasks |-> 3]
    /\ clock = 0
    /\ config = [defaultWorkspaceId |-> "w1"]
    /\ supabaseInstance = Client
    /\ faulty = FALSE
    /\ calls = [c \in Callers |-> Idle]
    /\ ServingOnStdio

ConcRequests ==
    {Request(n, [task_id |-> t]) : n \in {"start_task", "complete_task"}, t \in {1, 2}}

NextConc ==
    \E c \in Callers :
        \/ \E r \in ConcRequests : CallTool(c, r)
        \/ MoveSteps(c)
        \/ SyncSteps(c)

SpecConc == InitConc /\ [][NextConc]_vars

\* round(100 * done / total), halves up; 0 when there is no task.
ExactPercent(done, total) ==
    IF total = 0 THEN 0 ELSE (200 * done + total) \div (2 * total)

DoneCount(projectId) ==
    Cardinality({t \in ProjectTasks(projectId) : tasks[t].status = "done"})

Consistent(projectId) ==
    projects[projectId].progress
        = ExactPercent(DoneCount(projectId), Cardinality(ProjectTasks(projectId)))

\* C5: with calls in flight together, a synchronizer writes the percentage
\* of the task statuses as they were when its own calculation read them,
\* whatever has been written to the tasks since; and the stored progress
\* changes in no other step than such a write, so a stale value stays until
\* another sync writes.
SyncWritesWhatItRead ==
    [][/\ \A c \in Callers :
             /\ (calls[c].pc = "calculateProjectProgress" /\ calls'[c].pc # "calculateProjectProgress")
                   => /\ calls'[c].pc = "updateProject_validate"
                      /\ calls'[c].input.progress
                           = ExactPercent(DoneCount(calls[c].pid),
                                          Cardinality(ProjectTasks(calls[c].pid)))
             /\ (calls[c].pc = "updateProject_update" /\ calls'[c].pc # "updateProject_update")
                   => projects'[calls[c].pid].progress = calls[c].input.progress
       /\ \A p \in DOMAIN projects :
             projects'[p].progress # projects[p].progress
                => \E c \in Callers : /\ calls[c].pc = "updateProject_update"
                                      /\ calls'[c].pc # "updateProject_update"
                                      /\ calls[c].pid = p]_vars

StaleProgressAfterBothSettled ==
    /\ \A c \in Callers : Settled(c) /\ calls[c].result.success
    /\ calls["c1"].args.task_id # calls["c2"].args.task_id
    /\ calls["c1"].name = "complete_task" /\ calls["c2"].name = "complete_task"
    /\ ~Consistent(1)

(***************************************************************************)
(* A project of MaxBulkTasks tasks, any number of them done, one call at a *)
(* time, every query of the store succeeding.                              *)
(***************************************************************************)
InitBulk ==
    \E done \in 0..MaxBulkTasks :
        /\ workspaces = ("w1" :> Workspace("Studio", 0))
        /\ team_members = TeamMembers
        /\ projects = (1 :> [Project("w1", "Website", 0)
                               EXCEPT !.progress = RoundedPercent(done, MaxBulkTasks)])
        /\ tasks = [t \in 1..MaxBulkTasks |->
                      Task(1, "Implement login",
                           IF t > MaxBulkTasks - done THEN "done" ELSE "todo", t - 1, 0)]
        /\ nextId = [projects |-> 2, tasks |-> MaxBulkTasks + 1]
        /\ clock = 0
        /\ config = [defaultWorkspaceId |-> "w1"]
        /\ supabaseInstance = Client
        /\ faulty = FALSE
        /\ calls = [c \in Callers |-> Idle]
    /\ ServingOnStdio

BulkRequests == {r \in TaskRequests : r.name \in {"start_task", "complete_task"}}

NextBulk ==
    \/ \E r \in BulkRequests : CallTool(Sequential, r)
    \/ \E p \in ProjectIdArgs : CallCalculateProjectProgress(Sequential, p)
    \/ MoveSteps(Sequential)
    \/ SyncSteps(Sequential)
    \/ Respond(Sequential)

SpecBulk == InitBulk /\ [][NextBulk]_vars

\* The tools that create, delete or change the status of a task.
TaskMutating ==
    {"create_task", "update_task", "move_task", "start_task", "complete_task",
     "review_task", "delete_task"}

\* C1: when a task-mutating call has settled (one call at a time, every
\* query of the store succeeding), the progress stored for the task's
\* project is round(100 * done / total) over the project's tasks, 0 when it
\* has none.
StoredProgressIsExact ==
    \A c \in Callers :
        (/\ Settled(c)
         /\ calls[c].name \in TaskMutating
         /\ Failures(calls[c].log) = {}
         /\ "syncProjectProgress" \in {calls[c].ops[i] : i \in DOMAIN calls[c].ops})
        => /\ calls[c].result.success
           /\ Consistent(calls[c].pid)

\* C3: calculateProjectProgress returns success with round(100 * done /
\* total), halves up, over the project's tasks, 0 when it has none, and
\* writes nothing.
CalculatedProgressIsExact ==
    \A c \in Callers :
        (/\ Settled(c)
         /\ calls[c].name = "calculateProjectProgress"
         /\ Failures(calls[c].log) = {})
        => /\ calls[c].result.success
           /\ calls[c].result.data
                = ExactPercent(DoneCount(calls[c].args.project_id),
                               Cardinality(ProjectTasks(calls[c].args.project_id)))
           /\ Writes(calls[c].log) = {}
           /\ Unchanged(c)

(***************************************************************************)
(* The Envelope, and what reaches the transport.                           *)
(***************************************************************************)
ErrorCodes ==
    {"WORKSPACE_NOT_FOUND", "PROJECT_NOT_FOUND", "TASK_NOT_FOUND", "MISSING_WORKSPACE_ID",
     "INVALID_STATUS", "DATABASE_ERROR", "UNKNOWN_TOOL", "INTERNAL_ERROR"}

IsSuccessEnvelope(r) == DOMAIN r = {"success", "data", "message"} /\ r.success = TRUE

IsErrorEnvelope(r) ==
    /\ DOMAIN r = {"success", "error", "code"}
    /\ r.success = FALSE
    /\ r.error # Undefined
    /\ r.code \in ErrorCodes

\* C11: whatever an operation or handleToolCall returns is a success
\* Envelope (success true, data present) or an error Envelope (success false,
\* an error string, and a code of the server's error vocabulary).
ResultIsEnvelope ==
    \A c \in Callers :
        Settled(c) => IsSuccessEnvelope(calls[c].result) \/ IsErrorEnvelope(calls[c].result)

DatabaseErrorWasReturned ==
    \E c \in Callers :
        /\ Settled(c)
        /\ calls[c].name = "get_workspace_summary"
        /\ Len(calls[c].log) = 5
        /\ IsErrorEnvelope(calls[c].result)
        /\ calls[c].result.code = "DATABASE_ERROR"

(***************************************************************************)
(* The operations as a library: a module that imports the exported         *)
(* operations and calls them itself, before or after it has called         *)
(* initializeSupabase.                                                     *)
(***************************************************************************)
ServerConfigs ==
    {[supabaseUrl |-> u, supabaseServiceKey |-> k, defaultWorkspaceId |-> d] :
        u \in {"", "https://studio.supabase.co"},
        k \in {"", "service-role-key"},
        d \in {Undefined, "w1"}}

\* A client made of whatever it is given: what HandleIsSetOnceAtStartup
\* rules out.
InitializeUnchecked(cfg) ==
    /\ supabaseInstance' = Client
    /\ config' = cfg
    /\ UNCHANGED fatal

\* initializeSupabase(config): it throws for an empty URL or key, and else
\* sets the client and the configuration of the module.
initializeSupabase(cfg) ==
    IF cfg.supabaseUrl = ""
    THEN /\ fatal' = "SUPABASE_URL is required"
         /\ UNCHANGED <<supabaseInstance, config>>
    ELSE IF cfg.supabaseServiceKey = ""
    THEN /\ fatal' = "SUPABASE_SERVICE_ROLE_KEY is required"
         /\ UNCHANGED <<supabaseInstance, config>>
    ELSE /\ supabaseInstance' = Client
         /\ config' = cfg
         /\ UNCHANGED fatal

\* A module that imports the client module calls initializeSupabase.
CallInitializeSupabase(cfg) ==
    /\ Quiescent
    /\ initializeSupabase(cfg)
    /\ UNCHANGED <<store, clock, faulty, calls, phase, activeTransports, connections>>

Apply(rec, op, input) ==
    CASE op = "listWorkspaces" -> listWorkspaces(rec, input)
      [] op = "getWorkspace" -> getWorkspace(rec, input)
      [] op = "getWorkspaceSummary" -> getWorkspaceSummary(rec, input.workspace_id)
      [] op = "getWorkInProgress" -> getWorkInProgress(rec, input.workspace_id)
      [] op = "listProjects" -> listProjects(rec, input)
      [] op = "getProject" -> getProject(rec, input)
      [] op = "createProject" -> createProject(rec, input)
      [] op = "updateProject" -> updateProject(rec, input)
      [] op = "updateProjectProgress" ->
            updateProjectProgress(rec, input.project_id, input.progress)
      [] op = "calculateProjectProgress" -> calculateProjectProgress(rec, input.project_id)
      [] op = "syncProjectProgress" -> syncProjectProgress(rec, input.project_id)

LibraryCalls ==
    {[op |-> "listWorkspaces", input |-> NoFields]}
    \cup {[op |-> o, input |-> [workspace_id |-> w]] :
            o \in {"getWorkspace", "getWorkspaceSummary", "getWorkInProgress"},
            w \in WorkspaceIdArgs}
    \cup {[op |-> "listProjects", input |-> a] :
            a \in {NoFields} \cup {[workspace_id |-> w] : w \in WorkspaceIdArgs}}
    \cup {[op |-> o, input |-> [project_id |-> p]] :
            o \in {"getProject", "calculateProjectProgress", "syncProjectProgress"},
            p \in ProjectIdArgs}
    \cup {[op |-> "createProject", input |-> [workspace_id |-> w, name |-> "Shop"]] :
            w \in WorkspaceIdArgs}
    \cup {[op |-> o, input |-> [project_id |-> p, progress |-> 150]] :
            o \in {"updateProject", "updateProjectProgress"}, p \in ProjectIdArgs}

\* An exported operation is called directly: no handler stands between the
\* operation and its caller.
CallOperation(c, call) ==
    /\ At(c, "idle")
    /\ call.op = "createProject" => nextId.projects <= MaxProjects
    /\ Becomes(c, Apply([Idle EXCEPT !.name = call.op, !.args = call.input,
                                      !.before = Snapshot],
                        call.op, call.input))
    /\ UNCHANGED <<store, clock, config, supabaseInstance, faulty, front>>

InitLibrary ==
    /\ workspaces = ("w1" :> Workspace("Studio", 0))
    /\ team_members = TeamMembers
    /\ projects = (1 :> [Project("w1", "Website", 0) EXCEPT !.progress = 50])
    /\ tasks = (1 :> Task(1, "Implement login", "todo", 0, 0))
                 @@ (2 :> Task(1, "Add dashboard", "done", 1, 0))
    /\ nextId = [projects |-> 2, tasks |-> 3]
    /\ clock = 0
    /\ config = [defaultWorkspaceId |-> Undefined]
    /\ supabaseInstance = Null
    /\ faulty \in BOOLEAN
    /\ calls = [c \in Callers |-> Idle]
    /\ ServingOnStdio

NextLibrary ==
    \/ \E cfg \in ServerConfigs : CallInitializeSupabase(cfg)
    \/ \E call \in LibraryCalls : Quiescent /\ CallOperation(Sequential, call)
    \/ WorkspaceSteps(Sequential)
    \/ ProjectSteps(Sequential)
    \/ SyncSteps(Sequential)
    \/ Respond(Sequential)

SpecLibrary == InitLibrary /\ [][NextLibrary]_vars

\* C12: no operation throws; whatever the Gateway does, initialized or not,
\* a call of an operation ends with an Envelope.
OperationNeverThrows ==
    \A c \in Callers :
        (Settled(c) /\ calls[c].ops # <<>>) => ~Has(calls[c].result, "thrown")

(***************************************************************************)
(* The server after start-up, serving requests that carry arguments and    *)
(* requests that carry none (`arguments` is optional in tools/call).       *)
(***************************************************************************)
WithoutArguments(name) == [name |-> name]

TransportRequests ==
    WorkspaceRequests \cup ProjectRequests \cup UnknownRequests
    \cup {WithoutArguments(n) :
            n \in {"list_workspaces", "list_projects", "update_project", "complete_task",
                   "drop_database"}}

NextTransport ==
    \/ \E r \in TransportRequests : Quiescent /\ CallTool(Sequential, r)
    \/ WorkspaceSteps(Sequential)
    \/ ProjectSteps(Sequential)
    \/ UpdateProjectSteps(Sequential)
    \/ Respond(Sequential)

SpecTransport == Init /\ [][NextTransport]_vars

IsTextEnvelope(response) ==
    /\ Has(response, "content")
    /\ Len(response.content) = 1
    /\ response.content[1].type = "text"
    /\ \/ IsSuccessEnvelope(response.content[1].text)
       \/ IsErrorEnvelope(response.content[1].text)

\* C13: an exception raised while a tool call is dispatched reaches the
\* transport as an error Envelope with code INTERNAL_ERROR; whatever happens,
\* the reply to a tool call is exactly one structured Envelope, never the
\* exception itself.
ExceptionBecomesInternalError ==
    \A c \in Callers :
        Settled(c) =>
            /\ IsTextEnvelope(calls[c].response)
            /\ Has(calls[c].result, "thrown") =>
                  /\ calls[c].response.content[1].text =
                        [success |-> FALSE, error |-> calls[c].result.thrown,
                         code |-> "INTERNAL_ERROR"]
                  /\ Has(calls[c].response, "isError")
                  /\ calls[c].response.isError

ExceptionWasCaught ==
    \E c \in Callers :
        /\ Settled(c)
        /\ calls[c].name = "list_workspaces"
        /\ Has(calls[c].result, "thrown")
        /\ calls[c].response.content[1].text.code = "INTERNAL_ERROR"

\* C14: the reply to a tool call carries isError exactly when the Envelope's
\* success is false; a success is serialized as success true with the
\* Envelope's message and data, an error as success false with the
\* Envelope's error and code.
ErrorIsFlagged ==
    \A c \in Callers :
        (Settled(c) /\ calls[c].name # "calculateProjectProgress") =>
            LET envelope == calls[c].result
                reply    == calls[c].response
            IN  /\ (Has(reply, "isError") /\ reply.isError) <=> ~envelope.success
                /\ Len(reply.content) = 1
                /\ envelope.success =>
                      /\ ~Has(reply, "isError")
                      /\ reply.content[1].text =
                            [success |-> TRUE, message |-> envelope.message,
                             data |-> envelope.data]
                /\ ~envelope.success =>
                      reply.content[1].text =
                            [success |-> FALSE, error |-> envelope.error,
                             code |-> envelope.code]

ErrorWasFlagged ==
    \E c \in Callers :
        /\ Settled(c)
        /\ calls[c].name = "get_project"
        /\ ~calls[c].result.success
        /\ calls[c].result.code = "PROJECT_NOT_FOUND"
        /\ calls[c].response.isError
        /\ calls[c].response.content[1].text.code = "PROJECT_NOT_FOUND"

(***************************************************************************)
(* The server started with any default workspace or none, two workspaces   *)
(* with a project each, serving list_projects.                             *)
(***************************************************************************)
DefaultWorkspaceIds == {Undefined, "", "w1", "w2", "w0"}

InitDefaults ==
    /\ workspaces = ("w1" :> Workspace("Studio", 0)) @@ ("w2" :> Workspace("Lab", 0))
    /\ team_members = TeamMembers
    /\ projects = (1 :> Project("w1", "Website", 0)) @@ (2 :> Project("w2", "Survey", 0))
    /\ tasks = (1 :> Task(1, "Implement login", "todo", 0, 0))
    /\ nextId = [projects |-> 3, tasks |-> 2]
    /\ clock = 0
    /\ config \in {[defaultWorkspaceId |-> d] : d \in DefaultWorkspaceIds}
    /\ supabaseInstance = Client
    /\ faulty \in BOOLEAN
    /\ calls = [c \in Callers |-> Idle]
    /\ ServingOnStdio

ListProjectsRequests ==
    {Request("list_projects", a @@ b) :
        a \in {NoFields} \cup {[workspace_id |-> w] : w \in {"", "w1", "w2", "w0"}},
        b \in {NoFields, [status |-> "planning"], [limit |-> 1]}}

NextDefaults ==
    \/ \E r \in ListProjectsRequests : Quiescent /\ CallTool(Sequential, r)
    \/ listProjects_validate(Sequential)
    \/ listProjects_query(Sequential)
    \/ Respond(Sequential)

SpecDefaults == InitDefaults /\ [][NextDefaults]_vars

\* A settled list_projects call has worked on the workspace id `resolved`:
\* without one it has failed with MISSING_WORKSPACE_ID before any query; with
\* one, its first query is the check of that workspace, a missing workspace
\* gives WORKSPACE_NOT_FOUND, and a success lists projects of that workspace.
ResolvedTo(c, resolved) ==
    IF resolved \in {Undefined, ""}
    THEN /\ Code(c) = "MISSING_WORKSPACE_ID"
         /\ calls[c].log = <<>>
    ELSE /\ calls[c].log # <<>>
         /\ calls[c].log[1].table = "workspaces"
         /\ calls[c].input.workspace_id = resolved
         /\ resolved \notin DOMAIN workspaces =>
               Code(c) = "WORKSPACE_NOT_FOUND" /\ Len(calls[c].log) = 1
         /\ calls[c].result.success =>
               \A i \in DOMAIN calls[c].result.data :
                   calls[c].result.data[i].workspace_id = resolved

\* C15 as stated: a workspace_id argument that is given is the workspace
\* listProjects works on, whatever the default; without the argument it is
\* the default; with neither, MISSING_WORKSPACE_ID and no query.
GivenWorkspaceAlwaysWins ==
    \A c \in Callers :
        (Settled(c) /\ calls[c].name = "list_projects") =>
            ResolvedTo(c, IF Has(calls[c].args, "workspace_id")
                          THEN calls[c].args.workspace_id
                          ELSE config.defaultWorkspaceId)

\* C15, amended: a workspace_id argument that is given and is not the empty
\* string is the workspace listProjects works on, whatever the default;
\* otherwise it is the default; with neither (an empty string counting as
\* absent), MISSING_WORKSPACE_ID and no query.
ExplicitWorkspaceWins ==
    \A c \in Callers :
        (Settled(c) /\ calls[c].name = "list_projects") =>
            ResolvedTo(c, IF Has(calls[c].args, "workspace_id") /\ calls[c].args.workspace_id # ""
                          THEN calls[c].args.workspace_id
                          ELSE config.defaultWorkspaceId)

ExplicitWorkspaceHasWon ==
    \E c \in Callers :
        /\ Settled(c)
        /\ calls[c].name = "list_projects"
        /\ calls[c].args = [workspace_id |-> "w2"]
        /\ config.defaultWorkspaceId = "w1"
        /\ calls[c].result.success
        /\ Len(calls[c].result.data) = 1
        /\ calls[c].result.data[1].name = "Survey"

(***************************************************************************)
(* The server after start-up, serving create_project with every kind of    *)
(* argument; and the server with two projects, serving update_project      *)
(* with every kind of argument.                                            *)
(***************************************************************************)
CreateProjectRequests ==
    {Request("create_project", [workspace_id |-> w, name |-> n] @@ a) :
        w \in WorkspaceIdArgs, n \in {"Shop", "Blog"},
        a \in {NoFields, [status |-> "active"], [priority |-> "low"],
               [status |-> "on-hold", priority |-> "high", progress |-> 70]}}

UpdateProjectRequests ==
    {Request("update_project", [project_id |-> p] @@ a) :
        p \in ProjectIdArgs \cup {2},
        a \in {NoFields, [name |-> ""], [status |-> "active"], [progress |-> 150],
               [name |-> "Site", priority |-> "high"],
               [workspace_id |-> "w0", created_at |-> 1]}}

NextProjects ==
    \/ \E r \in CreateProjectRequests : Quiescent /\ CallTool(Sequential, r)
    \/ createProject_validate(Sequential)
    \/ createProject_insert(Sequential)
    \/ Respond(Sequential)

SpecProjects == Init /\ [][NextProjects]_vars

InitUpdates ==
    /\ workspaces = ("w1" :> Workspace("Studio", 0))
    /\ team_members = TeamMembers
    /\ projects = (1 :> [Project("w1", "Website", 0) EXCEPT !.progress = 50])
                    @@ (2 :> [Project("w1", "Shop", 0) EXCEPT !.status = "on-hold"])
    /\ tasks = (1 :> Task(1, "Implement login", "todo", 0, 0))
                 @@ (2 :> Task(2, "Add dashboard", "done", 0, 0))
    /\ nextId = [projects |-> 3, tasks |-> 3]
    /\ clock = 0
    /\ config = [defaultWorkspaceId |-> "w1"]
    /\ supabaseInstance = Client
    /\ faulty \in BOOLEAN
    /\ calls = [c \in Callers |-> Idle]
    /\ ServingOnStdio

NextUpdates ==
    \/ \E r \in UpdateProjectRequests : Quiescent /\ CallTool(Sequential, r)
    \/ UpdateProjectSteps(Sequential)
    \/ Respond(Sequential)

SpecUpdates == InitUpdates /\ [][NextUpdates]_vars

OtherRowsUnchanged(c, id) ==
    /\ \A p \in DOMAIN calls[c].before.projects :
          p # id => (p \in DOMAIN projects /\ projects[p] = calls[c].before.projects[p])
    /\ tasks = calls[c].before.tasks
    /\ workspaces = calls[c].before.workspaces

\* C16: a create_project that succeeds has inserted exactly one project:
\* progress 0 whatever the caller sent, the given status or 'planning', the
\* given priority or 'medium', the workspace_id of the argument, created_at
\* equal to updated_at; and it returns that row.
CreatedProjectHasDefaults ==
    \A c \in Callers :
        (Settled(c) /\ calls[c].name = "create_project" /\ calls[c].result.success) =>
            LET a   == calls[c].args
                new == DOMAIN projects \ DOMAIN calls[c].before.projects
            IN  /\ a.workspace_id \in DOMAIN workspaces
                /\ Cardinality(new) = 1
                /\ \A p \in new :
                      /\ projects[p].progress = 0
                      /\ projects[p].status = IF Has(a, "status") THEN a.status ELSE "planning"
                      /\ projects[p].priority =
                            IF Has(a, "priority") THEN a.priority ELSE "medium"
                      /\ projects[p].workspace_id = a.workspace_id
                      /\ projects[p].name = a.name
                      /\ projects[p].created_at = projects[p].updated_at
                      /\ calls[c].result.data = WithId(projects, p)
                      /\ OtherRowsUnchanged(c, p)

ProjectWasCreated ==
    \E c \in Callers :
        /\ Settled(c)
        /\ calls[c].name = "create_project"
        /\ calls[c].result.success
        /\ Has(calls[c].args, "progress") /\ calls[c].args.progress = 70
        /\ calls[c].result.data.progress = 0
        /\ calls[c].result.data.status = "on-hold"
        /\ calls[c].result.data.created_at = 1

\* C17: an update_project that succeeds has changed, in the project it
\* names, the fields present in the input (progress clamped) and updated_at,
\* which is set anew in every case; every other field, workspace_id, id and
\* created_at among them, is as before, and so is every other project and
\* every task.
UpdateChangesOnlyGivenFields ==
    \A c \in Callers :
        (Settled(c) /\ calls[c].name = "update_project" /\ calls[c].result.success) =>
            LET a   == calls[c].args
                id  == a.project_id
                old == calls[c].before.projects[id]
                new == projects[id]
            IN  /\ DOMAIN new = DOMAIN old
                /\ \A f \in DOMAIN old :
                      IF f = "updated_at" THEN new[f] = clock /\ new[f] >= old[f]
                      ELSE IF f = "progress" /\ Has(a, f) THEN new[f] = Min(100, Max(0, a[f]))
                      ELSE IF f \in {"name", "status", "priority"} /\ Has(a, f) THEN new[f] = a[f]
                      ELSE new[f] = old[f]
                /\ calls[c].result.data = WithId(projects, id)
                /\ OtherRowsUnchanged(c, id)

OnlyNameWasUpdated ==
    \E c \in Callers :
        /\ Settled(c)
        /\ calls[c].name = "update_project"
        /\ calls[c].args = [project_id |-> 2, name |-> ""]
        /\ calls[c].result.success
        /\ projects[2].name = ""
        /\ projects[2].status = "on-hold"
        /\ projects[2].created_at = 0
        /\ projects[2].updated_at = 1
        /\ projects[1].updated_at = 0

\* C18: in every reachable state the progress of every project is an
\* integer from 0 to 100, whatever createProject, updateProject,
\* updateProjectProgress and the synchronizer have written.
ProgressInRange == \A p \in DOMAIN projects : projects[p].progress \in 0..100

ProgressWasWrittenThreeWays ==
    /\ DOMAIN projects = {1, 2}
    /\ projects[2].progress = 0
    /\ projects[1].progress = 50
    /\ \E c \in Callers :
          /\ Settled(c)
          /\ calls[c].name = "start_task"
          /\ calls[c].result.success
          /\ calls[c].before.projects[1].progress = 100
          /\ Len(calls[c].ops) > 2

(***************************************************************************)
(* The synchronizer called by a module of the running server, as the task  *)
(* operations call it, with its result in the caller's hands.              *)
(***************************************************************************)
InitSync ==
    /\ workspaces = ("w1" :> Workspace("Studio", 0))
    /\ team_members = TeamMembers
    /\ projects = (1 :> [Project("w1", "Website", 0) EXCEPT !.progress = 50])
    /\ \E status \in TaskStatuses :
          tasks = (1 :> Task(1, "Implement login", status, 0, 0))
                    @@ (2 :> Task(1, "Add dashboard", "done", 1, 0))
    /\ nextId = [projects |-> 2, tasks |-> 3]
    /\ clock = 0
    /\ config = [defaultWorkspaceId |-> "w1"]
    /\ supabaseInstance = Client
    /\ faulty \in BOOLEAN
    /\ calls = [c \in Callers |-> Idle]
    /\ ServingOnStdio

SyncCalls ==
    {call \in LibraryCalls :
        call.op \in {"syncProjectProgress", "calculateProjectProgress",
                     "updateProjectProgress"}}

NextSync ==
    \/ \E call \in SyncCalls : Quiescent /\ CallOperation(Sequential, call)
    \/ SyncSteps(Sequential)
    \/ Respond(Sequential)

SpecSync == InitSync /\ [][NextSync]_vars

\* C20: no tool call inserts, updates or deletes a row of workspaces or of
\* team_members: both tables are as at start-up in every reachable state,
\* and every write a call has issued is to projects or to tasks.
WorkspacesAreReadOnly ==
    /\ workspaces = ("w1" :> Workspace("Studio", 0))
    /\ team_members = TeamMembers
    /\ \A c \in Callers :
          \A i \in Writes(calls[c].log) : calls[c].log[i].table \in {"projects", "tasks"}

EveryTableWasUsed ==
    /\ DOMAIN projects = {1, 2}
    /\ projects[2].updated_at = 1
    /\ DOMAIN tasks = {2, 3}
    /\ \E c \in Callers :
          /\ Settled(c)
          /\ calls[c].name = "get_workspace_summary"
          /\ calls[c].result.success
          /\ calls[c].result.data.team_members = 1

\* C19: syncProjectProgress computes, then writes.  When the computation
\* fails it returns the computation's error Envelope and nothing is written:
\* every row is as before.  When it succeeds, the only write is the update
\* that follows, and the progress it stores is the computed percentage.
SyncReturnsWhatFailed ==
    \A c \in Callers :
        (Settled(c) /\ calls[c].name = "syncProjectProgress") =>
            LET log      == calls[c].log
                pid      == calls[c].args.project_id
                computed == RoundedPercent(DoneCount(pid), Cardinality(ProjectTasks(pid)))
            IN  /\ log # <<>>
                /\ log[1].verb = "select" /\ log[1].table = "tasks"
                /\ ~log[1].ok =>
                      /\ calls[c].result =
                            ToolError("Failed to calculate progress", "DATABASE_ERROR")
                      /\ Len(log) = 1
                      /\ Unchanged(c)
                /\ log[1].ok =>
                      /\ Writes(log) \subseteq {3}
                      /\ calls[c].result.success =>
                            /\ Writes(log) = {3}
                            /\ projects[pid].progress = computed
                            /\ calls[c].result.data.progress = computed
                      /\ ~calls[c].result.success => Unchanged(c)

ComputeFailureWasReturned ==
    \E c \in Callers :
        /\ Settled(c)
        /\ calls[c].name = "syncProjectProgress"
        /\ calls[c].args.project_id = 1
        /\ calls[c].ops = <<"syncProjectProgress", "calculateProjectProgress">>
        /\ Failures(calls[c].log) = {1}
        /\ calls[c].result.error = "Failed to calculate progress"
        /\ projects[1].progress = 100
        /\ DoneCount(1) = 1


(***************************************************************************)
(* Not-found codes and failed existence checks.                            *)
(***************************************************************************)
\* Whether the existence check of the call, its first query, has failed.
ExistenceQueryFailed(c) == calls[c].log # <<>> /\ ~calls[c].log[1].ok

\* C21: WORKSPACE_NOT_FOUND and PROJECT_NOT_FOUND are returned only when no
\* row has the id the call names; when the row exists and the existence
\* query fails, the call returns DATABASE_ERROR.
NotFoundOnlyWhenNoRow ==
    \A c \in Callers :
        Settled(c) =>
            LET name == calls[c].name
                args == calls[c].args
                was  == calls[c].before
            IN  /\ (name \in ByProjectId /\ Code(c) = "PROJECT_NOT_FOUND")
                      => args.project_id \notin DOMAIN was.projects
                /\ (name \in ByWorkspaceId /\ Has(args, "workspace_id")
                                           /\ Code(c) = "WORKSPACE_NOT_FOUND")
                      => args.workspace_id \notin DOMAIN was.workspaces
                /\ (name \in ByProjectId /\ args.project_id \in DOMAIN was.projects
                                         /\ ExistenceQueryFailed(c))
                      => Code(c) = "DATABASE_ERROR"
                /\ (name \in ByWorkspaceId /\ Has(args, "workspace_id")
                                           /\ args.workspace_id \in DOMAIN was.workspaces
                                           /\ ExistenceQueryFailed(c))
                      => Code(c) = "DATABASE_ERROR"


(***************************************************************************)
(* Two workspaces and three projects updated at any times, the server      *)
(* serving list_workspaces and list_projects with and without a limit.     *)
(***************************************************************************)
LimitArgs == {0, 1, 2}

InitLists ==
    /\ \E t \in [{"w1", "w2"} -> {0, 1}] :
          workspaces = [w \in {"w1", "w2"} |-> Workspace("Studio", t[w])]
    /\ team_members = TeamMembers
    /\ \E t \in [1..3 -> {0, 1}] :
          projects = (1 :> [Project("w1", "Website", 0) EXCEPT !.updated_at = t[1]])
                       @@ (2 :> [Project("w1", "Shop", 0)
                                    EXCEPT !.status = "active", !.updated_at = t[2]])
                       @@ (3 :> [Project("w2", "Survey", 0) EXCEPT !.updated_at = t[3]])
    /\ tasks = EmptyTable
    /\ nextId = [projects |-> 4, tasks |-> 1]
    /\ clock = 1
    /\ config = [defaultWorkspaceId |-> "w1"]
    /\ supabaseInstance = Client
    /\ faulty \in BOOLEAN
    /\ calls = [c \in Callers |-> Idle]
    /\ ServingOnStdio

ListRequests ==
    {Request("list_workspaces", b) : b \in {NoFields} \cup {[limit |-> n] : n \in LimitArgs}}
    \cup {Request("list_projects", a @@ s @@ b) :
            a \in {NoFields, [workspace_id |-> "w2"]},
            s \in {NoFields, [status |-> "planning"], [status |-> "active"]},
            b \in {NoFields} \cup {[limit |-> n] : n \in LimitArgs}}

NextLists ==
    \/ \E r \in ListRequests : Quiescent /\ CallTool(Sequential, r)
    \/ listWorkspaces_query(Sequential)
    \/ listProjects_validate(Sequential)
    \/ listProjects_query(Sequential)
    \/ Respond(Sequential)

SpecLists == InitLists /\ [][NextLists]_vars

\* The rows a settled list call has to choose from.
Matching(c) ==
    IF calls[c].name = "list_workspaces"
    THEN {WithId(workspaces, w) : w \in DOMAIN workspaces}
    ELSE {WithId(projects, p) :
            p \in {q \in DOMAIN projects :
                     /\ projects[q].workspace_id = calls[c].input.workspace_id
                     /\ Has(calls[c].args, "status")
                           => projects[q].status = calls[c].args.status}}

\* C22: list_workspaces and list_projects return at most `limit` rows when a
\* limit is given, 0 included, and every matching row when none is given;
\* the rows come latest update first, each once, and list_projects returns
\* only rows of the resolved workspace and of the status given.
ListsAreCapped ==
    \A c \in Callers :
        (Settled(c) /\ calls[c].name \in {"list_workspaces", "list_projects"}
                    /\ calls[c].result.success)
        => LET data == calls[c].result.data
           IN  /\ Has(calls[c].args, "limit") => Len(data) <= calls[c].args.limit
               /\ ~Has(calls[c].args, "limit") => {data[i] : i \in DOMAIN data} = Matching(c)
               /\ {data[i] : i \in DOMAIN data} \subseteq Matching(c)
               /\ \A i, j \in DOMAIN data :
                     i < j => data[i] # data[j] /\ data[i].updated_at >= data[j].updated_at


(***************************************************************************)
(* Three workspaces, one of them without projects, the server serving      *)
(* get_workspace_summary and get_work_in_progress.                         *)
(***************************************************************************)
\* The statuses of the six projects of workspace w1.
ProjectProfiles ==
    {<<"active", "active", "active", "active", "active", "active">>,
     <<"active", "completed", "planning", "on-hold", "active", "planning">>}

\* The statuses of the five tasks: three in project 1, one in project 2 and
\* one in project 7 of workspace w2.
TaskProfiles ==
    {<<"backlog", "todo", "in-progress", "review", "done">>,
     <<"in-progress", "in-progress", "review", "done", "review">>,
     <<"todo", "todo", "done", "todo", "backlog">>}

InitOverview ==
    /\ workspaces = [w \in {"w1", "w2", "w3"} |-> Workspace("Studio", 0)]
    /\ team_members = TeamMembers \cup {[id |-> "m2", workspace_id |-> "w1"],
                                        [id |-> "m3", workspace_id |-> "w2"]}
    /\ \E s \in ProjectProfiles :
          projects = [p \in 1..6 |-> [Project("w1", "Website", 0)
                                        EXCEPT !.status = s[p], !.updated_at = p % 3]]
                       @@ (7 :> [Project("w2", "Survey", 0) EXCEPT !.status = "active"])
    /\ \E s \in TaskProfiles :
          tasks = [t \in 1..5 |->
                     Task(IF t <= 3 THEN 1 ELSE IF t = 4 THEN 2 ELSE 7,
                          "Implement login", s[t], t, t % 2)]
    /\ nextId = [projects |-> 8, tasks |-> 6]
    /\ clock = 2
    /\ config = [defaultWorkspaceId |-> "w1"]
    /\ supabaseInstance = Client
    /\ faulty \in BOOLEAN
    /\ calls = [c \in Callers |-> Idle]
    /\ ServingOnStdio

OverviewRequests ==
    {Request(n, [workspace_id |-> w]) :
        n \in {"get_workspace_summary", "get_work_in_progress"},
        w \in {"w1", "w2", "w3", "w0"}}

NextOverview ==
    \/ \E r \in OverviewRequests : Quiescent /\ CallTool(Sequential, r)
    \/ getWorkspaceSummary_validate(Sequential)
    \/ getWorkspaceSummary_workspace(Sequential)
    \/ getWorkspaceSummary_projects(Sequential)
    \/ getWorkspaceSummary_tasks(Sequential)
    \/ getWorkspaceSummary_team(Sequential)
    \/ getWorkInProgress_validate(Sequential)
    \/ getWorkInProgress_projects(Sequential)
    \/ getWorkInProgress_tasks(Sequential)
    \/ Respond(Sequential)

SpecOverview == InitOverview /\ [][NextOverview]_vars


\* The tasks of the projects of workspace w.
WorkspaceTasks(w) == {t \in DOMAIN tasks : tasks[t].project_id \in WorkspaceProjects(w)}

\* The call has issued and settled without a query that failed, on a
\* workspace that exists.
RanClean(c, name) ==
    /\ Settled(c)
    /\ calls[c].name = name
    /\ calls[c].args.workspace_id \in DOMAIN workspaces
    /\ Failures(calls[c].log) = {}

\* C23: get_workspace_summary on an existing workspace, every fetch
\* succeeding, returns the number of the workspace's projects in total and
\* per status, the number of those projects' tasks in total and per status
\* (no task of another workspace's project), the number of the workspace's
\* team members, and as recent_projects the active projects of the workspace
\* latest update first, cut to the first 5; a workspace without projects
\* has no task fetch issued and task counts 0.
SummaryIsExact ==
    \A c \in Callers :
        RanClean(c, "get_workspace_summary") =>
            /\ calls[c].result.success
            /\ LET w  == calls[c].args.workspace_id
                   d  == calls[c].result.data
                   ps == WorkspaceProjects(w)
                   ts == WorkspaceTasks(w)
                   active == {p \in ps : projects[p].status = "active"}
                   recent == d.recent_projects
                   P(s) == Cardinality({p \in ps : projects[p].status = s})
                   T(s) == Cardinality({t \in ts : tasks[t].status = s})
               IN  /\ d.projects = [total |-> Cardinality(ps), active |-> P("active"),
                                    completed |-> P("completed"), planning |-> P("planning"),
                                    on_hold |-> P("on-hold")]
                   /\ d.tasks = [total |-> Cardinality(ts), backlog |-> T("backlog"),
                                 todo |-> T("todo"), in_progress |-> T("in-progress"),
                                 review |-> T("review"), done |-> T("done")]
                   /\ d.team_members = Cardinality({m \in team_members : m.workspace_id = w})
                   /\ Len(recent) = Min(5, Cardinality(active))
                   /\ \A i \in DOMAIN recent :
                         /\ recent[i].id \in active
                         /\ recent[i] = WithId(projects, recent[i].id)
                         /\ \A j \in DOMAIN recent :
                               i < j => /\ recent[i].id # recent[j].id
                                        /\ recent[i].updated_at >= recent[j].updated_at
                         /\ \A p \in active :
                               (\A j \in DOMAIN recent : recent[j].id # p)
                                  => projects[p].updated_at <= recent[i].updated_at
                   /\ ps = {} =>
                         /\ \A i \in DOMAIN calls[c].log : calls[c].log[i].table # "tasks"
                         /\ d.tasks.total = 0

SixActiveProjectsWereSummarized ==
    \E c \in Callers :
        /\ RanClean(c, "get_workspace_summary")
        /\ calls[c].args.workspace_id = "w1"
        /\ Cardinality({p \in WorkspaceProjects("w1") : projects[p].status = "active"}) = 6
        /\ Len(calls[c].result.data.recent_projects) = 5
        /\ calls[c].result.data.tasks.total = 4
        /\ Cardinality(DOMAIN tasks) = 5


\* Whether sequence s is the beginning of sequence t.
IsPrefix(s, t) == Len(s) <= Len(t) /\ \A i \in DOMAIN s : s[i] = t[i]

\* The tables get_workspace_summary reads, in order: the existence check,
\* the workspace, its projects, their tasks, the team members.
SummaryFetches == <<"workspaces", "workspaces", "projects", "tasks", "team_members">>

\* C24: get_workspace_summary issues its fetches in the order existence
\* check, workspace, projects, tasks, team members (the task fetch left out
\* for a workspace without projects); a fetch that fails is the last one the
\* call issues, and the call returns the error DATABASE_ERROR.
FetchFailureIsDatabaseError ==
    \A c \in Callers :
        (calls[c].pc # "idle" /\ calls[c].name = "get_workspace_summary") =>
            LET log == calls[c].log
                tables == [i \in DOMAIN log |-> log[i].table]
            IN  /\ \/ IsPrefix(tables, SummaryFetches)
                   \/ IsPrefix(tables, <<"workspaces", "workspaces", "projects", "team_members">>)
                /\ \A i \in DOMAIN log : log[i].verb = "select"
                /\ \A i \in Failures(log) :
                      /\ i = Len(log)
                      /\ Settled(c)
                      /\ Code(c) = "DATABASE_ERROR"


\* C25: get_work_in_progress on an existing workspace, no query failing,
\* succeeds: for a workspace without projects with an empty list and no
\* query of the tasks; otherwise with exactly the tasks of the workspace's
\* projects whose status is in-progress or review, each once, latest update
\* first; no other task is returned and no such task is left out.
WorkInProgressIsExact ==
    \A c \in Callers :
        RanClean(c, "get_work_in_progress") =>
            /\ calls[c].result.success
            /\ LET w    == calls[c].args.workspace_id
                   data == calls[c].result.data
                   due  == {t \in WorkspaceTasks(w) : tasks[t].status \in {"in-progress", "review"}}
               IN  /\ {data[i] : i \in DOMAIN data} = {WithId(tasks, t) : t \in due}
                   /\ Len(data) = Cardinality(due)
                   /\ \A i, j \in DOMAIN data :
                         i < j => data[i].updated_at >= data[j].updated_at
                   /\ WorkspaceProjects(w) = {} =>
                         /\ data = <<>>
                         /\ \A i \in DOMAIN calls[c].log : calls[c].log[i].table # "tasks"

WorkInProgressWasListed ==
    \E c \in Callers :
        /\ RanClean(c, "get_work_in_progress")
        /\ calls[c].args.workspace_id = "w1"
        /\ Len(calls[c].result.data) = 3
        /\ \E i \in 1..3 : calls[c].result.data[i].status = "review"
        /\ tasks[5].status = "review"
        /\ \E t \in WorkspaceTasks("w1") : tasks[t].status = "done"


(***************************************************************************)
(* The same store, the server serving get_project.                         *)
(***************************************************************************)
GetProjectRequests ==
    {Request("get_project", [project_id |-> p] @@ a) :
        p \in {0, 1, 2, 3, 7},
        a \in {NoFields, [include_tasks |-> TRUE], [include_tasks |-> FALSE]}}

NextDetails ==
    \/ \E r \in GetProjectRequests : Quiescent /\ CallTool(Sequential, r)
    \/ getProject_validate(Sequential)
    \/ getProject_select(Sequential)
    \/ Respond(Sequential)

SpecDetails == InitOverview /\ [][NextDetails]_vars

\* C26: get_project on an existing project, no query failing, includes the
\* tasks unless include_tasks is false (absent and true include them).  With
\* tasks the result is the project row with all tasks of the project and
\* task_counts, where each of the five status counts is the number of
\* included tasks of that status and total the number of included tasks, so
\* that the five counts add up to total; without tasks it is the project
\* row alone.
ProjectDetailsAreExact ==
    \A c \in Callers :
        (/\ Settled(c)
         /\ calls[c].name = "get_project"
         /\ calls[c].args.project_id \in DOMAIN projects
         /\ Failures(calls[c].log) = {})
        => /\ calls[c].result.success
           /\ LET id   == calls[c].args.project_id
                  args == calls[c].args
                  data == calls[c].result.data
                  row  == WithId(projects, id)
              IN  IF Has(args, "include_tasks") /\ args.include_tasks = FALSE
                  THEN data = row
                  ELSE /\ DOMAIN data = DOMAIN row \cup {"tasks", "task_counts"}
                       /\ \A k \in DOMAIN row : data[k] = row[k]
                       /\ data.tasks = {WithId(tasks, t) :
                                          t \in {u \in DOMAIN tasks : tasks[u].project_id = id}}
                       /\ DOMAIN data.task_counts =
                             {"total", "backlog", "todo", "in-progress", "review", "done"}
                       /\ \A s \in {"backlog", "todo", "in-progress", "review", "done"} :
                             data.task_counts[s] =
                                Cardinality({t \in data.tasks : t.status = s})
                       /\ data.task_counts.total = Cardinality(data.tasks)
                       /\ data.task_counts.total =
                             data.task_counts["backlog"] + data.task_counts["todo"]
                             + data.task_counts["in-progress"] + data.task_counts["review"]
                             + data.task_counts["done"]

ProjectWasReadWithTasks ==
    \E c \in Callers :
        /\ Settled(c)
        /\ calls[c].name = "get_project"
        /\ calls[c].args = [project_id |-> 1]
        /\ calls[c].result.success
        /\ calls[c].result.data.task_counts.total = 3
        /\ calls[c].result.data.task_counts["in-progress"] = 2


(***************************************************************************)
(* A project whose stored progress may be out of date, the server serving  *)
(* update_task with and without a status.                                  *)
(***************************************************************************)
InitEdits ==
    /\ workspaces = ("w1" :> Workspace("Studio", 0))
    /\ team_members = TeamMembers
    /\ \E g \in {10, 50} :
          projects = (1 :> [Project("w1", "Website", 0) EXCEPT !.progress = g])
    /\ tasks = (1 :> Task(1, "Implement login", "todo", 0, 0))
                 @@ (2 :> Task(1, "Add dashboard", "done", 1, 0))
    /\ nextId = [projects |-> 2, tasks |-> 3]
    /\ clock = 0
    /\ config = [defaultWorkspaceId |-> "w1"]
    /\ supabaseInstance = Client
    /\ faulty \in BOOLEAN
    /\ calls = [c \in Callers |-> Idle]
    /\ ServingOnStdio

UpdateTaskRequests ==
    {Request("update_task", [task_id |-> t] @@ a) :
        t \in TaskIdArgs,
        a \in {[title |-> "Sign in"], [status |-> "done"],
               [title |-> "Sign in", status |-> "review"]}}

NextEdits ==
    \/ \E r \in UpdateTaskRequests : Quiescent /\ CallTool(Sequential, r)
    \/ updateTask_select(Sequential)
    \/ updateTask_update(Sequential)
    \/ SyncSteps(Sequential)
    \/ Respond(Sequential)

SpecEdits == InitEdits /\ [][NextEdits]_vars

\* Whether the call has entered the function `op`.
Entered(c, op) == \E i \in DOMAIN calls[c].ops : calls[c].ops[i] = op

\* Whether the call has issued the query `verb` of `table` with outcome ok.
Issued(c, verb, table, ok) ==
    \E i \in DOMAIN calls[c].log :
        calls[c].log[i] = [verb |-> verb, table |-> table, ok |-> ok]

\* C27: update_task enters syncProjectProgress only with a status among its
\* arguments and only after its write of the task has succeeded, and with
\* both it does enter it; without a status the project rows stay as they
\* were, and after a failed write of the task no write of a project is
\* issued.
UpdateTaskSyncsOnStatus ==
    \A c \in Callers :
        (calls[c].pc # "idle" /\ calls[c].name = "update_task") =>
            /\ Entered(c, "syncProjectProgress")
                  => /\ Has(calls[c].args, "status")
                     /\ Issued(c, "update", "tasks", TRUE)
            /\ (Has(calls[c].args, "status") /\ Issued(c, "update", "tasks", TRUE))
                  => Entered(c, "syncProjectProgress")
            /\ ~Has(calls[c].args, "status")
                  => /\ projects = calls[c].before.projects
                     /\ \A ok \in BOOLEAN : ~Issued(c, "update", "projects", ok)
            /\ ~Issued(c, "update", "tasks", TRUE)
                  => /\ projects = calls[c].before.projects
                     /\ \A ok \in BOOLEAN : ~Issued(c, "update", "projects", ok)

StaleProgressWasLeftAlone ==
    \E c \in Callers :
        /\ Settled(c)
        /\ calls[c].name = "update_task"
        /\ calls[c].args = [task_id |-> 1, title |-> "Sign in"]
        /\ calls[c].result.success
        /\ tasks[1].title = "Sign in"
        /\ projects[1].progress = 10
        /\ tasks[2].status = "done"


(***************************************************************************)
(* Tasks that match a query in two workspaces, the server serving          *)
(* search_tasks.                                                           *)
(***************************************************************************)
InitSearch ==
    /\ workspaces = [w \in {"w1", "w2"} |-> Workspace("Studio", 0)]
    /\ team_members = TeamMembers
    /\ projects = (1 :> Project("w1", "Website", 0)) @@ (2 :> Project("w2", "Survey", 0))
    /\ \E t \in [1..4 -> {0, 1}] :
          tasks = (1 :> Task(1, "Implement login", "todo", 0, t[1]))
                    @@ (2 :> Task(1, "Add dashboard", "done", 1, t[2]))
                    @@ (3 :> Task(2, "Implement login", "todo", 0, t[3]))
                    @@ (4 :> [Task(1, "Sign in", "review", 2, t[4])
                                 EXCEPT !.description = "Implement login"])
    /\ nextId = [projects |-> 3, tasks |-> 5]
    /\ clock = 1
    /\ config = [defaultWorkspaceId |-> "w1"]
    /\ supabaseInstance = Client
    /\ faulty \in BOOLEAN
    /\ calls = [c \in Callers |-> Idle]
    /\ ServingOnStdio

SearchRequests ==
    {Request("search_tasks", [query |-> q] @@ w @@ l) :
        q \in {"login", "dashboard", "nonexistent"},
        w \in {NoFields, [workspace_id |-> "w1"], [workspace_id |-> "w2"]},
        l \in {NoFields, [limit |-> 1], [limit |-> 2]}}

NextSearch ==
    \/ \E r \in SearchRequests : Quiescent /\ CallTool(Sequential, r)
    \/ searchTasks_query(Sequential)
    \/ Respond(Sequential)

SpecSearch == InitSearch /\ [][NextSearch]_vars

\* The tasks whose title or description contains the query.
Matches(query) ==
    {t \in DOMAIN tasks : \/ <<tasks[t].title, query>> \in
                                {<<"Implement login", "login">>, <<"Add dashboard", "dashboard">>}
                          \/ <<tasks[t].description, query>> \in
                                {<<"Implement login", "login">>}}

\* C28: search_tasks with a workspace_id limits the fetch (to 20 rows by
\* default) before it filters by workspace: every task returned matches the
\* query in title or description, belongs to a project of that workspace and
\* is among the first `limit` matches of all workspaces, latest first, so
\* the result never has more than `limit` tasks; a query that matches no
\* task succeeds with an empty list.
SearchLimitsBeforeFilter ==
    \A c \in Callers :
        (Settled(c) /\ calls[c].name = "search_tasks" /\ Failures(calls[c].log) = {}) =>
            LET args  == calls[c].args
                data  == calls[c].result.data
                limit == IF Has(args, "limit") THEN args.limit ELSE 20
            IN  /\ calls[c].result.success
                /\ Len(data) <= limit
                /\ \A i \in DOMAIN data :
                      /\ data[i].id \in Matches(args.query)
                      /\ Has(args, "workspace_id") =>
                            /\ data[i].project.workspace_id = args.workspace_id
                            /\ projects[data[i].project_id].workspace_id = args.workspace_id
                      /\ Cardinality({t \in Matches(args.query) :
                                        tasks[t].updated_at > data[i].updated_at}) < limit
                      /\ \A j \in DOMAIN data : i < j => data[i].id # data[j].id
                /\ Matches(args.query) = {} => data = <<>>

\* Fewer tasks than the limit although the workspace holds a match.
SearchCameBackShort ==
    \E c \in Callers :
        /\ Settled(c)
        /\ calls[c].name = "search_tasks"
        /\ calls[c].args = [query |-> "login", workspace_id |-> "w1", limit |-> 1]
        /\ calls[c].result.success
        /\ calls[c].result.data = <<>>
        /\ \E t \in Matches("login") : projects[tasks[t].project_id].workspace_id = "w1"


(***************************************************************************)
(* The process from its start: main() of index.ts for one client on stdio, *)
(* or startSSEServer of server/sse.ts for streaming clients, each with its *)
(* GET /sse connection; tool calls once a client is served; shutdown on a  *)
(* signal.                                                                 *)
(***************************************************************************)
\* index.ts main(): the configuration is validated, then the client made.
main(cfg) ==
    /\ phase = "starting"
    /\ IF cfg.supabaseUrl = "" \/ cfg.supabaseServiceKey = ""
       THEN /\ phase' = "exited"
            /\ UNCHANGED <<supabaseInstance, config, fatal>>
       ELSE /\ initializeSupabase(cfg)
            /\ phase' = "stdio"
    /\ UNCHANGED <<store, clock, faulty, calls, activeTransports, connections>>

\* sse.ts startSSEServer(config): initializeSupabase first; its exception
\* rejects the promise of startSSEServer, and the server never listens.
startSSEServer(cfg) ==
    /\ phase = "starting"
    /\ initializeSupabase(cfg)
    /\ phase' = IF cfg.supabaseUrl = "" \/ cfg.supabaseServiceKey = ""
                THEN "failed" ELSE "sse"
    /\ UNCHANGED <<store, clock, faulty, calls, activeTransports, connections>>

Open == {"connecting", "connected", "failed"}

\* The requestId of client k's connection: `${Date.now()}-${random}`, taken
\* to differ from connection to connection.
RequestId(k) == k

\* The server instances made so far are numbered from 1.
createMCPServer == 1 + Cardinality({k \in Clients : connections[k].state # "none"})

\* app.get('/sse') up to `await server.connect(transport)`.
GetSse(k) ==
    /\ phase = "sse"
    /\ connections[k].state = "none"
    /\ connections' = [connections EXCEPT ![k] = [state |-> "connecting",
                                                  server |-> createMCPServer]]
    /\ activeTransports' = (RequestId(k) :> [endpoint |-> "/message", res |-> k])
                              @@ [i \in DOMAIN activeTransports \ {RequestId(k)}
                                    |-> activeTransports[i]]
    /\ UNCHANGED <<store, clock, config, supabaseInstance, faulty, calls, phase, fatal>>

\* server.connect(transport) returns: the stream is up.
ConnectReturns(k) ==
    /\ connections[k].state = "connecting"
    /\ connections' = [connections EXCEPT ![k].state = "connected"]
    /\ UNCHANGED <<store, clock, config, supabaseInstance, faulty, calls, phase, fatal,
                   activeTransports>>

\* server.connect(transport) throws: the catch block answers 500 and leaves
\* the table as it is.
ConnectThrows(k) ==
    /\ connections[k].state = "connecting"
    /\ connections' = [connections EXCEPT ![k].state = "failed"]
    /\ UNCHANGED <<store, clock, config, supabaseInstance, faulty, calls, phase, fatal,
                   activeTransports>>

\* req.on('close'): activeTransports.delete(requestId).
RequestClosed(k) ==
    /\ connections[k].state \in Open
    /\ connections' = [connections EXCEPT ![k].state = "closed"]
    /\ activeTransports' = [i \in DOMAIN activeTransports \ {RequestId(k)}
                              |-> activeTransports[i]]
    /\ UNCHANGED <<store, clock, config, supabaseInstance, faulty, calls, phase, fatal>>

\* shutdown(signal): every entry is deleted from the table, the transports
\* are not closed, and the HTTP server stops accepting connections.
shutdown ==
    /\ phase = "sse"
    /\ phase' = "stopping"
    /\ activeTransports' = EmptyTable
    /\ UNCHANGED <<store, clock, config, supabaseInstance, faulty, calls, fatal, connections>>

\* process.exit: when the server has closed, or 10 seconds after the signal.
ProcessExit ==
    /\ phase = "stopping"
    /\ Quiescent
    /\ phase' = "exited"
    /\ connections' = [k \in Clients |->
                         IF connections[k].state \in Open
                         THEN [connections[k] EXCEPT !.state = "closed"]
                         ELSE connections[k]]
    /\ UNCHANGED <<store, clock, config, supabaseInstance, faulty, calls, fatal,
                   activeTransports>>

\* Whether a client is being served that can send a tool call.
ClientIsServed ==
    \/ phase = "stdio"
    \/ phase \in {"sse", "stopping"} /\ \E k \in Clients : connections[k].state = "connected"

ServerRequests == {Request("list_workspaces", NoFields), Request("list_projects", NoFields)}

InitServer ==
    /\ workspaces = ("w1" :> Workspace("Studio", 0))
    /\ team_members = TeamMembers
    /\ projects = (1 :> [Project("w1", "Website", 0) EXCEPT !.progress = 50])
    /\ tasks = (1 :> Task(1, "Implement login", "todo", 0, 0))
    /\ nextId = [projects |-> 2, tasks |-> 2]
    /\ clock = 0
    /\ config = [defaultWorkspaceId |-> Undefined]
    /\ supabaseInstance = Null
    /\ faulty = FALSE
    /\ calls = [c \in Callers |-> Idle]
    /\ phase = "starting"
    /\ fatal = Null
    /\ activeTransports = EmptyTable
    /\ connections = [k \in Clients |-> Unconnected]

NextServer ==
    \/ \E cfg \in ServerConfigs : main(cfg)
    \/ \E cfg \in ServerConfigs : startSSEServer(cfg)
    \/ \E k \in Clients : GetSse(k)
    \/ \E k \in Clients : ConnectReturns(k)
    \/ \E k \in Clients : ConnectThrows(k)
    \/ \E k \in Clients : RequestClosed(k)
    \/ shutdown
    \/ ProcessExit
    \/ \E r \in ServerRequests : ClientIsServed /\ Quiescent /\ CallTool(Sequential, r)
    \/ Quiescent /\ phase # "exited"
          /\ CallOperation(Sequential, [op |-> "listWorkspaces", input |-> NoFields])
    \/ listWorkspaces_query(Sequential)
    \/ listProjects_validate(Sequential)
    \/ listProjects_query(Sequential)
    \/ Respond(Sequential)

SpecServer == InitServer /\ [][NextServer]_vars

\* C29: every GET /sse connection has a server instance of its own and an
\* entry of its own in activeTransports; at every moment the table holds
\* exactly the connections that were opened and have not closed, a
\* connection whose connect step has failed included.
TableHoldsOpenConnections ==
    /\ DOMAIN activeTransports = {RequestId(k) : k \in {j \in Clients : connections[j].state \in Open}}
    /\ \A k \in Clients :
          connections[k].state \in Open => activeTransports[RequestId(k)].res = k
    /\ \A j, k \in Clients :
          (j # k /\ connections[j].state # "none" /\ connections[k].state # "none")
             => connections[j].server # connections[k].server


\* A step that changes the client or the configuration is the one step of
\* start-up that sets them, taken before any tool call; start-up is left
\* for good.
SetOnlyAtStartup ==
    /\ (supabaseInstance' # supabaseInstance \/ config' # config)
          => /\ phase = "starting"
             /\ supabaseInstance = Null
             /\ supabaseInstance' = Client
             /\ phase' \in {"stdio", "sse"}
             /\ \A c \in Callers : calls[c].name \notin CatalogNames
    /\ phase # "starting" => phase' # "starting"

\* Tool calls are served with the client set; an empty URL or key has left
\* it unset with the exception thrown; an operation called with the client
\* unset has thrown before any query.
SetBeforeServing ==
    /\ \A c \in Callers :
          (calls[c].pc # "idle" /\ calls[c].name \in CatalogNames)
             => supabaseInstance = Client
    /\ phase \in {"stdio", "sse", "stopping"} => supabaseInstance = Client
    /\ supabaseInstance = Client
          => /\ config.supabaseUrl # ""
             /\ config.supabaseServiceKey # ""
             /\ fatal = Null
    /\ fatal # Null
          => /\ fatal \in {"SUPABASE_URL is required",
                           "SUPABASE_SERVICE_ROLE_KEY is required"}
             /\ supabaseInstance = Null
             /\ phase = "failed"
    /\ \A c \in Callers :
          (calls[c].pc # "idle" /\ calls[c].name = "listWorkspaces"
                                /\ supabaseInstance = Null)
             => /\ Settled(c)
                /\ Has(calls[c].result, "thrown")
                /\ calls[c].log = <<>>

\* C30: the client and the configuration of the client module are set once,
\* while the process starts and before any tool call is served, and no step
\* of a tool call or of a client connection changes them afterwards;
\* initializeSupabase with an empty URL or key throws and leaves the client
\* unset; getSupabase with the client unset throws.
HandleIsSetOnceAtStartup == [][SetOnlyAtStartup]_vars /\ []SetBeforeServing

DefaultWasReadWhileStreaming ==
    \E c \in Callers :
        /\ Settled(c)
        /\ calls[c].name = "list_projects"
        /\ calls[c].result.success
        /\ config.defaultWorkspaceId = "w1"
        /\ supabaseInstance = Client
        /\ phase = "sse"
        /\ \E j, k \in Clients : /\ connections[j].state = "closed"
                                 /\ connections[k].state = "connected"

=============================================================================
